---- MODULE Spec2Model ----
(***************************************************************************)
(* Model of the LTM-Y2K19JF-03 display driver: the character codec and the *)
(* frame-buffer render operations (src/src/ltmy2k19jf03.c), the bit-serial *)
(* transmitter, and the refresh loops with the buffer hand-off between the *)
(* main thread and the refresh thread (src/src/test_multiseg.c and         *)
(* src/unnamed/part_004).                                                  *)
(*                                                                         *)
(* Bytes are naturals 0..255, 16-bit codes naturals 0..65535; characters   *)
(* are their ASCII codes and C strings are sequences of non-zero codes.    *)
(* A frame buffer uint8_t[5][5] is a function [0..4 -> [0..4 -> 0..255]].  *)
(***************************************************************************)
EXTENDS Integers, Sequences, FiniteSets, TLC

VARIABLES
  program,          \* which program of the repository runs
  backend,          \* which GPIO implementation it is linked with
  block,            \* the global frame buffer `block`
  local_block,      \* blast_blocks_loop: local_block[5][5]
  semaphore,        \* the global uint8_t semaphore
  cpc,              \* blast_blocks_loop: position of the refresh thread
  current_block_counter,  \* blast_blocks_loop: current_block_counter
  copy_i,           \* blast_blocks_loop: i of the copy loop
  copy_j,           \* blast_blocks_loop: j of the copy loop
  creg,             \* blast_blocks_loop: value of semaphore loaded for ++ / --
  cancel_req,       \* a pthread_cancel of the refresh thread is pending
  tx_block,         \* ltm_blast_block: local_block[5]
  bit_index,        \* ltm_blast_block: 0 = start bit, 1 + 8*i + (7-j) = data bit
  bit_step,         \* blast_bit: the next statement (0..5), 6 = returned
  clock_pin,        \* level of the clock line
  data_pin,         \* level of the data line
  wire,             \* ghost: data levels at the rising clock edges of this group
  pin_log,          \* ghost: the statements blast_bit has executed for this bit
  in_group,         \* ghost: a group transmission has started and not finished
  ppc,              \* main of the test programs: position of the main thread
  main_i,           \* main: i
  main_j,           \* main: j
  render_i,         \* ltm_render_alphanum / ltm_render_numeric: i, while main runs it
  render_arg,       \* ltm_render_numeric: its argument render, while main runs it
  alphanum_string,  \* daemon: alphanum_string
  numeric_string,   \* daemon: numeric_string
  current_block,    \* daemon: current_block of main
  current_poll_timeout,  \* daemon: current_poll_timeout of main
  dpc,              \* daemon: position of main
  since_cmd,        \* ghost: loop iterations since the last command, -1 before any
  fresh,            \* ghost: the groups transmitted since the last command
  parsed,           \* ghost: the command parsed in this loop iteration, and the
                    \* strings and `block` as they were before parse_command
  staged,           \* ghost: the values of `block` at each semaphore = 0 of main
  last_tx_group,    \* ghost: index of the group transmitted last, -1 before any
  prev_tx_group,    \* ghost: index of the group transmitted before that one
  last_tx_frame,    \* ghost: the 5 bytes of the group transmitted last
  spc,              \* startup: position of main before the refresh loop
  init_step,        \* startup: GPIO calls ltm_display_init has made
  gpio_failed,      \* startup: some export / set-direction call returned -1
  retval,           \* startup: retval of main
  shutdown_log,     \* shutdown: the calls made after pthread_join, in order
  write_failures,   \* ghost: how many calls of gpio_write_pin by blast_bit returned -1
  gpio_call,        \* the GPIO function called last, with its arguments
  gpio_ret,         \* the value it returned
  read_pc,          \* daemon loop: position around poll and read, "none" when not run
  pipe_avail,       \* bytes waiting in the command FIFO
  writer,           \* the write end held by a client: "never", "open" or "closed"
  poll_retval,      \* main: retval of the last poll
  bytes_read,       \* main: bytes_read
  cmd_len,          \* index of the NUL stored last inside command_buf
  stray,            \* a NUL was stored outside command_buf
  fd_pc,            \* sysfs function: position, "idle" between calls
  fd_fn,            \* sysfs function called last
  fd_arg,           \* its direction or setting argument
  fd,               \* its local fd
  fd_table,         \* descriptors the process has open
  fd_ret,           \* the value the last call returned
  fd_calls,         \* number of calls made
  sleep_pc,         \* ltm_sleep: position, "none" when not called
  sleep_usec,       \* ltm_sleep: usec
  clock,            \* the time of day, in microseconds
  tNow,             \* delayMicrosecondsHard: tNow
  tEnd,             \* delayMicrosecondsHard: tEnd
  to_wait,          \* ltm_sleep: to_wait
  remaining,        \* ltm_sleep: remaining
  sleep_retval,     \* ltm_sleep: sleep_retval
  errno,            \* errno of the calling thread
  nanosleep_log,    \* ghost: argument, result and remaining time of each nanosleep call
  gen,              \* ghost: how many times main has set semaphore = 0
  staged_block,     \* ghost: `block` at the last semaphore = 0 of main
  adopted,          \* ghost: value of gen when the last copy loop was entered
  adopted_block,    \* ghost: value of staged_block when the last copy loop was entered
  codec_char,       \* codec: the character c passed to a find function
  codec_fn,         \* codec: the find function called last, "none" before
  codec_code,       \* codec: the code it returned
  prev_block,       \* ghost: `block` before the last render operation
  start_block,      \* ghost: `block` before the first render operation
  last_op           \* ghost: the last render operation and its arguments

startVars == <<spc, init_step, gpio_failed, retval>>

codecVars == <<codec_char, codec_fn, codec_code>>

sleepVars == <<sleep_pc, sleep_usec, clock, tNow, tEnd, to_wait, remaining, sleep_retval,
              errno, nanosleep_log>>

gpioVars == <<write_failures, gpio_call, gpio_ret>>

readVars == <<read_pc, pipe_avail, writer, poll_retval, bytes_read, cmd_len, stray>>

fdVars == <<fd_pc, fd_fn, fd_arg, fd, fd_table, fd_ret, fd_calls>>

ioVars == <<readVars, fdVars>>

baseVars == <<program, backend, startVars, codecVars, sleepVars, gpioVars, ioVars>>

handoffVars == <<gen, staged_block, adopted, adopted_block>>

progVars == <<baseVars, shutdown_log, handoffVars>>

bufVars == <<block, local_block, semaphore>>

consVars == <<cpc, current_block_counter, copy_i, copy_j, creg>>

wireVars == <<tx_block, bit_index, bit_step, clock_pin, data_pin, wire, pin_log, in_group>>

renderVars == <<prev_block, start_block, last_op>>

prodVars == <<ppc, main_i, main_j, render_i, render_arg>>

refreshVars == <<since_cmd, fresh, parsed>>

daemonVars == <<alphanum_string, numeric_string, current_block, current_poll_timeout, dpc,
               refreshVars>>

txVars == <<last_tx_group, prev_tx_group, last_tx_frame>>

ghostVars == <<staged, txVars>>

loopVars == <<prodVars, daemonVars, ghostVars>>

vars == <<progVars, bufVars, consVars, cancel_req, wireVars, renderVars, loopVars>>

----------------------------------------------------------------------------
(* Bit operations of C on unsigned operands.                               *)

RECURSIVE BitAnd(_, _)
BitAnd(a, b) ==
  IF a = 0 \/ b = 0 THEN 0
  ELSE (a % 2) * (b % 2) + 2 * BitAnd(a \div 2, b \div 2)

RECURSIVE BitOr(_, _)
BitOr(a, b) ==
  IF a = 0 THEN b
  ELSE IF b = 0 THEN a
  ELSE (IF a % 2 = 1 \/ b % 2 = 1 THEN 1 ELSE 0) + 2 * BitOr(a \div 2, b \div 2)

Shr(a, n) == a \div (2 ^ n)

Shl(a, n) == a * (2 ^ n)

\* (uint8_t) conversion
U8(a) == a % 256

\* ~a of a uint8_t operand, truncated to 8 bits
Not8(a) == 255 - a

Groups == 0 .. 4

Bytes == 0 .. 4

----------------------------------------------------------------------------
(* CharacterCodec                                                          *)

alphanum_chars ==
  << <<65, \hEC88>>,   \* 'A'
     <<66, \hF2A0>>,   \* 'B'
     <<67, \h9C00>>,   \* 'C'
     <<68, \hF220>>,   \* 'D'
     <<69, \h9C88>>,   \* 'E'
     <<70, \h8C88>>,   \* 'F'
     <<71, \hBC80>>,   \* 'G'
     <<72, \h6C88>>,   \* 'H'
     <<73, \h9220>>,   \* 'I'
     <<74, \h7800>>,   \* 'J'
     <<75, \h0D48>>,   \* 'K'
     <<76, \h1C00>>,   \* 'L'
     <<77, \h6D04>>,   \* 'M'
     <<78, \h6C44>>,   \* 'N'
     <<79, \hFC00>>,   \* 'O'
     <<80, \hCC88>>,   \* 'P'
     <<81, \hFC40>>,   \* 'Q'
     <<82, \hCCC8>>,   \* 'R'
     <<83, \hB084>>,   \* 'S'
     <<84, \h8220>>,   \* 'T'
     <<85, \h7C00>>,   \* 'U'
     <<86, \h0D10>>,   \* 'V'
     <<87, \h6C50>>,   \* 'W'
     <<88, \h0154>>,   \* 'X'
     <<89, \h0124>>,   \* 'Y'
     <<90, \h9110>>,   \* 'Z'
     <<48, \hFC00>>,   \* '0'
     <<49, \h6100>>,   \* '1'
     <<50, \hD888>>,   \* '2'
     <<51, \hF088>>,   \* '3'
     <<52, \h6488>>,   \* '4'
     <<53, \hB488>>,   \* '5'
     <<54, \hBC88>>,   \* '6'
     <<55, \hE000>>,   \* '7'
     <<56, \hFC88>>,   \* '8'
     <<57, \hF488>>,   \* '9'
     <<0, 0>> >>

\* The scan of the table from entry i (1-based here) up to the terminator.
RECURSIVE find_alphanum_from(_, _)
find_alphanum_from(c, i) ==
  IF alphanum_chars[i][1] = 0 THEN \h03FC
  ELSE IF alphanum_chars[i][1] = c THEN alphanum_chars[i][2]
  ELSE find_alphanum_from(c, i + 1)

\* The lookup matching lowercase letters with their uppercase entries.
ltm_find_alphanum_code_fold_case(c) ==
  find_alphanum_from(IF c >= 97 /\ c <= 122 THEN c - 32 ELSE c, 1)

ltm_find_alphanum_code(c) == find_alphanum_from(c, 1)

\* The numeric fold keeping the whole high byte of the code.
ltm_find_numeric_code_whole_byte(c) ==
  LET code == IF c >= 48 /\ c <= 57 THEN ltm_find_alphanum_code(c) ELSE \h03FC
      middle_seg == IF BitAnd(code, \h0088) # 0 THEN 2 ELSE 0
  IN  BitOr(U8(Shr(BitAnd(code, \hFF00), 8)), middle_seg)

ltm_find_numeric_code(c) ==
  LET code == IF c >= 48 /\ c <= 57 THEN ltm_find_alphanum_code(c) ELSE \h03FC
      middle_seg == IF BitAnd(code, \h0088) # 0 THEN 2 ELSE 0
  IN  BitOr(U8(Shr(BitAnd(code, \hFC00), 8)), middle_seg)

----------------------------------------------------------------------------
(* FrameBuffer render operations                                           *)

InitBlock ==
  [g \in Groups |->
     [k \in Bytes |->
        IF k = 3 THEN (IF g = 0 THEN \h04 ELSE IF g = 1 THEN \h02
                       ELSE IF g = 2 THEN \h01 ELSE 0)
        ELSE IF k = 4 THEN (IF g = 3 THEN \h80 ELSE IF g = 4 THEN \h40 ELSE 0)
        ELSE 0]]

\* ltm_clear_alphanum shifting byte 3 of groups 3 and 4 instead of masking it.
ltm_clear_alphanum_shifted(b) ==
  LET first == [i \in Groups |->
                  [b[i] EXCEPT ![0] = 0, ![1] = BitAnd(b[i][1], \h02)]]
  IN  [i \in Groups |->
         IF i >= 3
         THEN [first[i] EXCEPT ![1] = 0, ![2] = 0,
                               ![3] = Shr(first[i][3], 4)]
         ELSE first[i]]

ltm_clear_alphanum(b) ==
  LET first == [i \in Groups |->
                  [b[i] EXCEPT ![0] = 0, ![1] = BitAnd(b[i][1], \h02)]]
  IN  [i \in Groups |->
         IF i >= 3
         THEN [first[i] EXCEPT ![1] = 0, ![2] = 0,
                               ![3] = BitAnd(first[i][3], \h0F)]
         ELSE first[i]]

\* The character loop of ltm_render_alphanum with j = i - 3.
render_alphanum_char_wrong_group(code, b, i) ==
  IF i < 5
  THEN [b EXCEPT
          ![i][0] = BitOr(b[i][0], U8(Shr(BitAnd(code, \hFF00), 8))),
          ![i][1] = BitOr(b[i][1], U8(BitAnd(code, \h00FC)))]
  ELSE LET j == i - 3
       IN  [b EXCEPT
              ![j][1] = BitOr(b[j][1], U8(Shr(BitAnd(code, \hC000), 14))),
              ![j][2] = BitOr(b[j][2], U8(Shr(BitAnd(code, \h3FC0), 6))),
              ![j][3] = BitOr(b[j][3], U8(Shl(BitAnd(code, \h003C), 2)))]

\* The pass for index i with the byte-1 mask of cells 0..4 narrowed to 0x00F8.
render_alphanum_char_narrow_mask(code, b, i) ==
  IF i < 5
  THEN [b EXCEPT
          ![i][0] = BitOr(b[i][0], U8(Shr(BitAnd(code, \hFF00), 8))),
          ![i][1] = BitOr(b[i][1], U8(BitAnd(code, \h00F8)))]
  ELSE LET j == i - 2
       IN  [b EXCEPT
              ![j][1] = BitOr(b[j][1], U8(Shr(BitAnd(code, \hC000), 14))),
              ![j][2] = BitOr(b[j][2], U8(Shr(BitAnd(code, \h3FC0), 6))),
              ![j][3] = BitOr(b[j][3], U8(Shl(BitAnd(code, \h003C), 2)))]

\* One pass of the character loop of ltm_render_alphanum, for index i.
render_alphanum_char(code, b, i) ==
  IF i < 5
  THEN [b EXCEPT
          ![i][0] = BitOr(b[i][0], U8(Shr(BitAnd(code, \hFF00), 8))),
          ![i][1] = BitOr(b[i][1], U8(BitAnd(code, \h00FC)))]
  ELSE LET j == i - 2
       IN  [b EXCEPT
              ![j][1] = BitOr(b[j][1], U8(Shr(BitAnd(code, \hC000), 14))),
              ![j][2] = BitOr(b[j][2], U8(Shr(BitAnd(code, \h3FC0), 6))),
              ![j][3] = BitOr(b[j][3], U8(Shl(BitAnd(code, \h003C), 2)))]

RECURSIVE render_alphanum_loop(_, _, _)
render_alphanum_loop(render, b, i) ==
  IF i < 7 /\ i < Len(render)
  THEN render_alphanum_loop(
         render,
         render_alphanum_char(ltm_find_alphanum_code(render[i + 1]), b, i),
         i + 1)
  ELSE b

ltm_render_alphanum(render, b) ==
  render_alphanum_loop(render, ltm_clear_alphanum(b), 0)

\* ltm_clear_numeric with the nibbles of the byte-3 mask swapped.
ltm_clear_numeric_swapped_mask(b) ==
  [i \in Groups |->
     IF i >= 1 /\ i < 3
     THEN [b[i] EXCEPT ![1] = BitAnd(b[i][1], \hFC), ![2] = 0,
                       ![3] = BitAnd(b[i][3], \hF0)]
     ELSE b[i]]

ltm_clear_numeric(b) ==
  [i \in Groups |->
     IF i >= 1 /\ i < 3
     THEN [b[i] EXCEPT ![1] = BitAnd(b[i][1], \hFC), ![2] = 0,
                       ![3] = BitAnd(b[i][3], \h0F)]
     ELSE b[i]]

\* The digit loop of ltm_render_numeric with the two groups exchanged.
render_numeric_char_swapped_groups(code, b, i) ==
  LET block_index == IF i % 2 = 0 THEN 2 ELSE 1
  IN  IF i < 2
      THEN [b EXCEPT
              ![block_index][1] =
                 BitOr(b[block_index][1], Shr(BitAnd(code, \hC0), 6)),
              ![block_index][2] =
                 BitOr(b[block_index][2], U8(Shl(BitAnd(code, \h3E), 2)))]
      ELSE [b EXCEPT
              ![block_index][2] =
                 BitOr(b[block_index][2], Shr(BitAnd(code, \hE0), 5)),
              ![block_index][3] =
                 BitOr(b[block_index][3], U8(Shl(BitAnd(code, \h1E), 3)))]

\* One pass of the character loop of ltm_render_numeric, for index i.
render_numeric_char(code, b, i) ==
  LET block_index == IF i % 2 = 0 THEN 1 ELSE 2
  IN  IF i < 2
      THEN [b EXCEPT
              ![block_index][1] =
                 BitOr(b[block_index][1], Shr(BitAnd(code, \hC0), 6)),
              ![block_index][2] =
                 BitOr(b[block_index][2], U8(Shl(BitAnd(code, \h3E), 2)))]
      ELSE [b EXCEPT
              ![block_index][2] =
                 BitOr(b[block_index][2], Shr(BitAnd(code, \hE0), 5)),
              ![block_index][3] =
                 BitOr(b[block_index][3], U8(Shl(BitAnd(code, \h1E), 3)))]

RECURSIVE render_numeric_loop(_, _, _)
render_numeric_loop(render, b, i) ==
  IF i < 4 /\ i < Len(render)
  THEN render_numeric_loop(
         render,
         render_numeric_char(ltm_find_numeric_code(render[i + 1]), b, i),
         i + 1)
  ELSE b

ltm_render_numeric(render, b) ==
  render_numeric_loop(render, ltm_clear_numeric(b), 0)

\* The two renders in the other order.
render_numeric_first(a, n, b) == ltm_render_alphanum(a, ltm_render_numeric(n, b))

\* render() of the first daemon and the tail of parse_command of the second.
render(a, n, b) == ltm_render_numeric(n, ltm_render_alphanum(a, b))

----------------------------------------------------------------------------
(* Inputs of the render operations.                                        *)

AllOnes == [g \in Groups |-> [k \in Bytes |-> \hFF]]

StartBuffers == {InitBlock, AllOnes}

AlphaStrings ==
  { << >>,
    <<84, 69, 83, 84, 73, 78, 71>>,       \* "TESTING"
    <<55, 56, 57>>,                       \* "789"
    <<97, 32, 42>>,                       \* "a *"
    <<72, 73, 74, 75, 76, 77, 78, 79>> }  \* "HIJKLMNO"

NumStrings ==
  { << >>,
    <<52, 50>>,                           \* "42"
    <<49, 50>>,                           \* "12"
    <<52, 45>>,                           \* "4-"
    <<49, 50, 51, 52, 53>> }              \* "12345"

----------------------------------------------------------------------------
(* The render operations applied to a buffer, one call per step.           *)

\* The values of the variables of components that do not run.
ThreadIdle ==
  /\ local_block = InitBlock
  /\ semaphore = 2
  /\ cpc = "none"
  /\ current_block_counter = 0
  /\ copy_i = 0
  /\ copy_j = 0
  /\ creg = 0
  /\ cancel_req = FALSE

WireIdle ==
  /\ tx_block = [k \in Bytes |-> 0]
  /\ bit_index = 0
  /\ bit_step = 0
  /\ clock_pin = 0
  /\ data_pin = 0
  /\ wire = << >>
  /\ pin_log = << >>
  /\ in_group = FALSE

RenderIdle ==
  /\ prev_block = InitBlock
  /\ start_block = InitBlock
  /\ last_op = [op |-> "none", a |-> << >>, n |-> << >>]

MainIdle ==
  /\ ppc = "none"
  /\ main_i = 0
  /\ main_j = 0
  /\ render_i = 0
  /\ render_arg = << >>

\* No command has been parsed in this loop iteration.
NoCommand ==
  [c |-> [verb |-> "none", has_arg |-> FALSE, arg |-> << >>],
   a |-> << >>, n |-> << >>, b |-> InitBlock]

DaemonIdle ==
  /\ alphanum_string = << >>
  /\ numeric_string = << >>
  /\ current_block = 0
  /\ current_poll_timeout = 0
  /\ dpc = "none"
  /\ since_cmd = -1
  /\ fresh = {}
  /\ parsed = NoCommand

ReadIdle ==
  /\ read_pc = "none"
  /\ pipe_avail = 0
  /\ writer = "never"
  /\ poll_retval = 0
  /\ bytes_read = 0
  /\ cmd_len = 0
  /\ stray = FALSE

FdIdle ==
  /\ fd_pc = "idle"
  /\ fd_fn = "none"
  /\ fd_arg = 0
  /\ fd = -1
  /\ fd_table = {}
  /\ fd_ret = 0
  /\ fd_calls = 0

IoIdle == ReadIdle /\ FdIdle

StartupIdle ==
  /\ spc = "none"
  /\ init_step = 0
  /\ gpio_failed = FALSE
  /\ retval = 0

CodecIdle ==
  /\ codec_char = 0
  /\ codec_fn = "none"
  /\ codec_code = 0

ShutdownIdle == shutdown_log = << >>

GpioIdle ==
  /\ write_failures = 0
  /\ gpio_call = [fn |-> "none", pin |-> 0, arg |-> 0]
  /\ gpio_ret = 0

SleepIdle ==
  /\ sleep_pc = "none"
  /\ sleep_usec = 0
  /\ clock = 0
  /\ tNow = 0
  /\ tEnd = 0
  /\ to_wait = [sec |-> 0, nsec |-> 0]
  /\ remaining = [sec |-> 0, nsec |-> 0]
  /\ sleep_retval = 0
  /\ errno = "none"
  /\ nanosleep_log = << >>

HandoffIdle ==
  /\ gen = 0
  /\ staged_block = InitBlock
  /\ adopted = 0
  /\ adopted_block = InitBlock

GhostIdle ==
  /\ staged = {}
  /\ last_tx_group = -1
  /\ prev_tx_group = -1
  /\ last_tx_frame = [k \in Bytes |-> 0]

InitRender ==
  /\ program = "render"
  /\ backend = "none"
  /\ ThreadIdle
  /\ WireIdle
  /\ MainIdle
  /\ DaemonIdle
  /\ GhostIdle
  /\ ShutdownIdle
  /\ HandoffIdle
  /\ GpioIdle
  /\ IoIdle
  /\ SleepIdle
  /\ StartupIdle
  /\ CodecIdle
  /\ block \in StartBuffers
  /\ prev_block = block
  /\ start_block = block
  /\ last_op = [op |-> "none", a |-> << >>, n |-> << >>]

ClearAlphanum ==
  /\ block' = ltm_clear_alphanum(block)
  /\ prev_block' = block
  /\ last_op' = [op |-> "clear_alphanum", a |-> << >>, n |-> << >>]
  /\ UNCHANGED <<progVars, local_block, semaphore, consVars, cancel_req, wireVars, start_block, loopVars>>

RenderAlphanum ==
  \E s \in AlphaStrings :
    /\ block' = ltm_render_alphanum(s, block)
    /\ prev_block' = block
    /\ last_op' = [op |-> "render_alphanum", a |-> s, n |-> << >>]
    /\ UNCHANGED <<progVars, local_block, semaphore, consVars, cancel_req, wireVars, start_block, loopVars>>

ClearNumeric ==
  /\ block' = ltm_clear_numeric(block)
  /\ prev_block' = block
  /\ last_op' = [op |-> "clear_numeric", a |-> << >>, n |-> << >>]
  /\ UNCHANGED <<progVars, local_block, semaphore, consVars, cancel_req, wireVars, start_block, loopVars>>

RenderNumeric ==
  \E s \in NumStrings :
    /\ block' = ltm_render_numeric(s, block)
    /\ prev_block' = block
    /\ last_op' = [op |-> "render_numeric", a |-> << >>, n |-> s]
    /\ UNCHANGED <<progVars, local_block, semaphore, consVars, cancel_req, wireVars, start_block, loopVars>>

RenderBoth ==
  \E s \in AlphaStrings, t \in NumStrings :
    /\ block' = render(s, t, block)
    /\ prev_block' = block
    /\ last_op' = [op |-> "render", a |-> s, n |-> t]
    /\ UNCHANGED <<progVars, local_block, semaphore, consVars, cancel_req, wireVars, start_block, loopVars>>

NextRender ==
  \/ ClearAlphanum
  \/ RenderAlphanum
  \/ ClearNumeric
  \/ RenderNumeric
  \/ RenderBoth

SpecRender == InitRender /\ [][NextRender]_vars

----------------------------------------------------------------------------
(* Bit regions of a frame buffer.                                          *)

\* The numeric-owned bits: groups 1 and 2, byte 1 low 2 bits, byte 2, byte 3
\* high nibble.
NumericOwned(b) ==
  [g \in 1 .. 2 |->
     <<BitAnd(b[g][1], \h03), b[g][2], BitAnd(b[g][3], \hF0)>>]

\* The mux-select bits of every group: byte 3 low 3 bits, byte 4 high 2 bits.
MuxSelect(b) ==
  [g \in Groups |-> <<BitAnd(b[g][3], \h07), BitAnd(b[g][4], \hC0)>>]

\* The alphanumeric-owned bits: cells 0..4 in bytes 0 and 1 of every group,
\* cells 5 and 6 in bytes 1..3 of groups 3 and 4.
AlphanumOwned(b) ==
  [g \in Groups |->
     <<b[g][0], BitAnd(b[g][1], \hFC)>>
     \o (IF g >= 3
         THEN <<BitAnd(b[g][1], \h03), b[g][2], BitAnd(b[g][3], \hF0)>>
         ELSE << >>)]

AlphanumClear(b) ==
  \A g \in Groups : \A k \in DOMAIN AlphanumOwned(b)[g] : AlphanumOwned(b)[g][k] = 0

----------------------------------------------------------------------------
(* Claims about the render operations (checked under SpecRender).          *)

\* C2: ltm_clear_alphanum and ltm_render_alphanum leave every numeric-owned
\* bit and every mux-select bit as it was, and with the empty string every
\* alphanumeric-owned bit is zero afterwards.  Stated for the buffers that
\* clear and render calls produce from the initial buffer.
C2_AlphanumLeavesSiblings ==
  (start_block = InitBlock /\ last_op.op \in {"clear_alphanum", "render_alphanum"}) =>
    /\ NumericOwned(block) = NumericOwned(prev_block)
    /\ MuxSelect(block) = MuxSelect(prev_block)
    /\ (last_op.a = << >> => AlphanumClear(block))

\* C3: rendering the alphanumeric string and then the numeric string gives
\* the same buffer as rendering them in the other order.  Stated for the
\* buffers that clear and render calls produce from the initial buffer.
C3_RendersCommute ==
  (start_block = InitBlock /\ last_op.op = "render") =>
    block = ltm_render_alphanum(last_op.a, ltm_render_numeric(last_op.n, prev_block))

\* C4: starting from the initial buffer, after any sequence of clear and
\* render calls the mux-select bits of every group have their initial values.
C4_MuxSelectKept ==
  start_block = InitBlock => MuxSelect(block) = MuxSelect(InitBlock)

C4_Witness ==
  /\ start_block = InitBlock
  /\ last_op.op = "render_numeric"
  /\ last_op.n = <<49, 50, 51, 52, 53>>
  /\ ~AlphanumClear(block)
  /\ NumericOwned(block) # NumericOwned(InitBlock)

----------------------------------------------------------------------------
(* BitTransport and FrameEncoder: blast_bit and ltm_blast_block (library), *)
(* blast_bit and blast_block (standalone test), one statement per step.    *)

ThreadPrograms == {"test_multiseg", "test_multiseg_lib"}

Backends == {"wiringpi", "sysfs"}

\* The private copy ltm_blast_block transmits: the 5 bytes with the bits
\* beyond 34 masked off.
blast_block_copy_unmasked(render_block) ==
  [i \in Bytes |-> render_block[i]]

blast_block_copy(render_block) ==
  [[i \in Bytes |-> render_block[i]] EXCEPT ![4] = BitAnd(render_block[4], \hC0)]

\* The argument of the call of blast_bit for bit_index n: blast_bit(1) for
\* the start bit, then blast_bit(local_block[i] >> j) for i = 0..4, j = 7..0.
blast_bit_arg(tx, n) ==
  IF n = 0 THEN 1
  ELSE LET i == (n - 1) \div 8
           j == 7 - ((n - 1) % 8)
       IN  U8(Shr(tx[i], j))

\* bit_setting of blast_bit
bit_setting(bit) == IF BitAnd(bit, \h01) = 0 THEN 0 ELSE 1

\* blast_bit with the data line written after the clock went high.
blast_bit_statement_data_late(bit, k) ==
  CASE k = 0 -> <<"clock", 0>>
    [] k = 1 -> <<"delay", 1>>
    [] k = 2 -> <<"clock", 1>>
    [] k = 3 -> <<"data", bit_setting(bit)>>
    [] k = 4 -> <<"delay", 1>>
    [] k = 5 -> <<"clock", 0>>

\* The k-th statement of blast_bit(bit): a pin write <<pin, level>> or a
\* delay <<"delay", usec>>.
blast_bit_statement(bit, k) ==
  CASE k = 0 -> <<"clock", 0>>
    [] k = 1 -> <<"data", bit_setting(bit)>>
    [] k = 2 -> <<"delay", 1>>
    [] k = 3 -> <<"clock", 1>>
    [] k = 4 -> <<"delay", 1>>
    [] k = 5 -> <<"clock", 0>>

NextStatement == blast_bit_statement(blast_bit_arg(tx_block, bit_index), bit_step)

\* gpio_write_pin of the sysfs backend passes open(), write() and close(),
\* which are cancellation points; digitalWrite of wiringPi is not.
gpio_write_is_cancellation_point == backend = "sysfs"

\* ltm_blast_block masking byte 4 of the buffer it is given as well.
BlastEnter_masks_in_place ==
  /\ cpc = "blast"
  /\ tx_block' = blast_block_copy(local_block[current_block_counter])
  /\ local_block' = [local_block EXCEPT ![current_block_counter] =
                       blast_block_copy(local_block[current_block_counter])]
  /\ bit_index' = 0
  /\ bit_step' = 0
  /\ wire' = << >>
  /\ pin_log' = << >>
  /\ in_group' = TRUE
  /\ cpc' = "blast_bit"
  /\ UNCHANGED <<progVars, block, semaphore, current_block_counter, copy_i, copy_j, creg,
                 cancel_req, clock_pin, data_pin, renderVars, loopVars>>

\* ltm_blast_block / blast_block: copy and mask the group, before blast_bit(1).
BlastEnter ==
  /\ cpc = "blast"
  /\ tx_block' = blast_block_copy(local_block[current_block_counter])
  /\ bit_index' = 0
  /\ bit_step' = 0
  /\ wire' = << >>
  /\ pin_log' = << >>
  /\ in_group' = TRUE
  /\ cpc' = "blast_bit"
  /\ UNCHANGED <<progVars, bufVars, current_block_counter, copy_i, copy_j, creg,
                 cancel_req, clock_pin, data_pin, renderVars, loopVars>>

\* After the last statement of blast_bit: the next bit, or the return of
\* ltm_blast_block after bit 40.
AfterStatement(k) ==
  IF k < 5
  THEN /\ bit_step' = k + 1
       /\ UNCHANGED <<bit_index, cpc, in_group>>
  ELSE IF bit_index < 40
  THEN /\ bit_step' = 0
       /\ bit_index' = bit_index + 1
       /\ UNCHANGED <<cpc, in_group>>
  ELSE /\ bit_step' = 0
       /\ bit_index' = 0
       /\ in_group' = FALSE
       /\ cpc' = "testcancel"

\* gpio_write_pin(pin, setting) as called by blast_bit.
GpioWritePin ==
  /\ cpc = "blast_bit"
  /\ NextStatement[1] \in {"clock", "data"}
  /\ ~(gpio_write_is_cancellation_point /\ cancel_req)
  /\ IF NextStatement[1] = "clock"
     THEN /\ clock_pin' = NextStatement[2]
          /\ wire' = IF clock_pin = 0 /\ NextStatement[2] = 1
                     THEN Append(wire, data_pin) ELSE wire
          /\ UNCHANGED data_pin
     ELSE /\ data_pin' = NextStatement[2]
          /\ UNCHANGED <<clock_pin, wire>>
  /\ pin_log' = IF bit_step = 0 THEN <<NextStatement>> ELSE Append(pin_log, NextStatement)
  /\ AfterStatement(bit_step)
  /\ UNCHANGED <<progVars, bufVars, current_block_counter, copy_i, copy_j, creg,
                 cancel_req, tx_block, renderVars, loopVars>>

\* The refresh thread acts on a pending cancel inside gpio_write_pin.
GpioWriteCancelled ==
  /\ cpc = "blast_bit"
  /\ NextStatement[1] \in {"clock", "data"}
  /\ gpio_write_is_cancellation_point /\ cancel_req
  /\ cpc' = "cancelled"
  /\ UNCHANGED <<progVars, bufVars, current_block_counter, copy_i, copy_j, creg,
                 cancel_req, wireVars, renderVars, loopVars>>

\* ltm_sleep(1) / local_sleep(1) inside blast_bit: a busy wait.
BitDelay ==
  /\ cpc = "blast_bit"
  /\ NextStatement[1] = "delay"
  /\ pin_log' = Append(pin_log, NextStatement)
  /\ AfterStatement(bit_step)
  /\ UNCHANGED <<progVars, bufVars, current_block_counter, copy_i, copy_j, creg,
                 cancel_req, tx_block, clock_pin, data_pin, wire, renderVars, loopVars>>

----------------------------------------------------------------------------
(* Multiplexer: blast_blocks_loop after the transmission of a group.       *)

\* pthread_testcancel()
TestCancel ==
  /\ cpc = "testcancel"
  /\ cpc' = IF cancel_req THEN "cancelled" ELSE "advance"
  /\ UNCHANGED <<progVars, bufVars, current_block_counter, copy_i, copy_j, creg,
                 cancel_req, wireVars, renderVars, loopVars>>

\* current_block_counter wrapping one group early.
next_block_counter_early(c) == IF c + 1 > 3 THEN 0 ELSE c + 1

next_block_counter(c) == IF c + 1 > 4 THEN 0 ELSE c + 1

\* current_block_counter++; if (current_block_counter > 4) ... = 0;
Advance ==
  /\ cpc = "advance"
  /\ current_block_counter' = next_block_counter(current_block_counter)
  /\ cpc' = "sleep"
  /\ UNCHANGED <<progVars, bufVars, copy_i, copy_j, creg, cancel_req, wireVars,
                 renderVars, loopVars>>

\* ltm_sleep(700000) / local_sleep(700000): nanosleep, a cancellation point.
Sleep ==
  /\ cpc = "sleep"
  /\ cpc' = IF cancel_req THEN "cancelled" ELSE "grab"
  /\ UNCHANGED <<progVars, bufVars, current_block_counter, copy_i, copy_j, creg,
                 cancel_req, wireVars, renderVars, loopVars>>

\* test_multiseg.c: if (semaphore == 0)
GrabCheck ==
  /\ program = "test_multiseg"
  /\ cpc = "grab"
  /\ cpc' = IF semaphore = 0 THEN "inc1_load" ELSE "blast"
  /\ UNCHANGED <<progVars, bufVars, current_block_counter, copy_i, copy_j, creg,
                 cancel_req, wireVars, renderVars, loopVars>>

\* The load of a ++ or -- of semaphore.
SemLoad ==
  /\ \/ cpc = "grab" /\ program = "test_multiseg_lib" /\ cpc' = "pre_store"
     \/ cpc = "inc1_load" /\ cpc' = "inc1_store"
     \/ cpc = "inc2_load" /\ cpc' = "inc2_store"
     \/ cpc = "dec_load" /\ cpc' = "dec_store"
  /\ creg' = semaphore
  /\ UNCHANGED <<progVars, bufVars, current_block_counter, copy_i, copy_j,
                 cancel_req, wireVars, renderVars, loopVars>>

\* test_multiseg.c: the store of the first semaphore++, before the copy.
Inc1Store ==
  /\ cpc = "inc1_store"
  /\ semaphore' = U8(creg + 1)
  /\ copy_i' = 0
  /\ copy_j' = 0
  /\ cpc' = "copy"
  /\ adopted' = gen
  /\ adopted_block' = staged_block
  /\ UNCHANGED <<baseVars, shutdown_log, gen, staged_block,
                 block, local_block, current_block_counter, creg,
                 cancel_req, wireVars, renderVars, loopVars>>

\* part_004: the store of ++semaphore and the test == 1.
PreStore ==
  /\ cpc = "pre_store"
  /\ semaphore' = U8(creg + 1)
  /\ copy_i' = 0
  /\ copy_j' = 0
  /\ IF U8(creg + 1) = 1
     THEN /\ cpc' = "copy"
          /\ adopted' = gen
          /\ adopted_block' = staged_block
     ELSE /\ cpc' = "dec_load"
          /\ UNCHANGED <<adopted, adopted_block>>
  /\ UNCHANGED <<baseVars, shutdown_log, gen, staged_block,
                 block, local_block, current_block_counter, creg,
                 cancel_req, wireVars, renderVars, loopVars>>

\* local_block[i][j] = block[i][j], one byte per step.
CopyByte ==
  /\ cpc = "copy"
  /\ local_block' = [local_block EXCEPT ![copy_i][copy_j] = block[copy_i][copy_j]]
  /\ IF copy_j < 4
     THEN copy_j' = copy_j + 1 /\ UNCHANGED <<copy_i, cpc>>
     ELSE IF copy_i < 4
     THEN copy_j' = 0 /\ copy_i' = copy_i + 1 /\ UNCHANGED cpc
     ELSE copy_j' = 0 /\ copy_i' = 0 /\ cpc' = "inc2_load"
  /\ UNCHANGED <<progVars, block, semaphore, current_block_counter, creg,
                 cancel_req, wireVars, renderVars, loopVars>>

\* The semaphore++ that follows the copy storing back the value it read.
Inc2Store_no_increment ==
  /\ cpc = "inc2_store"
  /\ semaphore' = creg
  /\ cpc' = "blast"
  /\ UNCHANGED <<progVars, block, local_block, current_block_counter, copy_i,
                 copy_j, creg, cancel_req, wireVars, renderVars, loopVars>>

\* The store of the semaphore++ that follows the copy.
Inc2Store ==
  /\ cpc = "inc2_store"
  /\ semaphore' = U8(creg + 1)
  /\ cpc' = "blast"
  /\ UNCHANGED <<progVars, block, local_block, current_block_counter, copy_i,
                 copy_j, creg, cancel_req, wireVars, renderVars, loopVars>>

\* part_004: the store of --semaphore; its value, an unsigned char promoted
\* to int, is never < 0, so the assignment semaphore = 0 is never reached.
DecStore ==
  /\ cpc = "dec_store"
  /\ semaphore' = IF U8(creg + 255) < 0 THEN 0 ELSE U8(creg + 255)
  /\ cpc' = "blast"
  /\ UNCHANGED <<progVars, block, local_block, current_block_counter, copy_i,
                 copy_j, creg, cancel_req, wireVars, renderVars, loopVars>>

\* main: pthread_cancel(blaster_thread)
Cancel ==
  /\ ~cancel_req
  /\ cpc # "cancelled"
  /\ cancel_req' = TRUE
  /\ UNCHANGED <<progVars, bufVars, consVars, wireVars, renderVars, loopVars>>

----------------------------------------------------------------------------
(* The refresh thread with the transmission bit by bit.  The main thread   *)
(* has staged one update (semaphore = 0) and is waiting; it may cancel the *)
(* refresh thread at any moment.  Every GPIO write succeeds and the lines  *)
(* are low after initialisation.                                           *)

WireBuffers == {AllOnes, render(<<84, 69, 83, 84, 73, 78, 71>>, <<49, 50>>, InitBlock)}

InitWire ==
  /\ program \in ThreadPrograms
  /\ backend \in Backends
  /\ block \in WireBuffers
  /\ local_block = InitBlock
  /\ semaphore = 0
  /\ cpc = "blast"
  /\ current_block_counter = 0
  /\ copy_i = 0
  /\ copy_j = 0
  /\ creg = 0
  /\ cancel_req = FALSE
  /\ WireIdle
  /\ RenderIdle
  /\ MainIdle
  /\ DaemonIdle
  /\ GhostIdle
  /\ ShutdownIdle
  /\ HandoffIdle
  /\ GpioIdle
  /\ IoIdle
  /\ SleepIdle
  /\ StartupIdle
  /\ CodecIdle

NextWire ==
  \/ BlastEnter
  \/ GpioWritePin
  \/ GpioWriteCancelled
  \/ BitDelay
  \/ TestCancel
  \/ Advance
  \/ Sleep
  \/ GrabCheck
  \/ SemLoad
  \/ Inc1Store
  \/ PreStore
  \/ CopyByte
  \/ Inc2Store
  \/ DecStore
  \/ Cancel

SpecWire == InitWire /\ [][NextWire]_vars

----------------------------------------------------------------------------
(* Claims about the wire protocol (checked under SpecWire).                *)

\* Bit j (0 = least significant) of a byte.
BitOf(byte, j) == (byte \div (2 ^ j)) % 2

\* C5: every group transmission puts exactly 41 bits on the wire: a start
\* bit 1, then bytes 0..4 of the group most significant bit first, the last
\* 6 bits (the low 6 bits of byte 4) sent as 0 whatever the buffer holds.
C5_FrameOnWire ==
  /\ Len(wire) <= 41
  /\ cpc = "testcancel" =>
       /\ Len(wire) = 41
       /\ wire[1] = 1
       /\ \A n \in 1 .. 34 :
            wire[n + 1] =
              BitOf(local_block[current_block_counter][(n - 1) \div 8], 7 - ((n - 1) % 8))
       /\ \A n \in 35 .. 40 : wire[n + 1] = 0

C5_Witness ==
  /\ cpc = "testcancel"
  /\ local_block = AllOnes
  /\ current_block_counter = 3
  /\ Len(wire) = 41
  /\ wire[35] = 1
  /\ wire[36] = 0

\* The statements of one transmitted bit, in order.
BitSequence(level) ==
  << <<"clock", 0>>, <<"data", level>>, <<"delay", 1>>,
     <<"clock", 1>>, <<"delay", 1>>, <<"clock", 0>> >>

IsPrefix(p, q) == Len(p) <= Len(q) /\ \A n \in 1 .. Len(p) : p[n] = q[n]

\* C6: every transmitted bit is the sequence clock LOW, data = bit, delay,
\* clock HIGH, delay, clock LOW; the data line is written only while the
\* clock is low, every bit gives one rising edge (41 per group), and the
\* clock is low before and after every group transmission.
C6_BitTiming ==
  /\ \E level \in {0, 1} : IsPrefix(pin_log, BitSequence(level))
  /\ (cpc = "blast_bit" /\ bit_step = 2) => (clock_pin = 0 /\ Len(pin_log) = 2)
  /\ (cpc = "blast_bit" /\ bit_step = 0 /\ pin_log # << >>) =>
        /\ Len(pin_log) = 6
        /\ Len(wire) = bit_index
        /\ wire[bit_index] = pin_log[2][2]
  /\ cpc = "testcancel" => (Len(pin_log) = 6 /\ Len(wire) = 41)
  /\ ~in_group => clock_pin = 0

C6_Witness ==
  /\ cpc = "testcancel"
  /\ current_block_counter = 1
  /\ Len(wire) = 41
  /\ pin_log = BitSequence(0)
  /\ clock_pin = 0

\* C7: a cancel request takes effect only between two complete group
\* transmissions, with either GPIO backend: the refresh thread never
\* terminates inside a group.
C7_CancelAtGroupBoundary ==
  cpc = "cancelled" => ~in_group

----------------------------------------------------------------------------
(* The main thread of the test programs: test_multiseg.c (standalone) and  *)
(* part_004 (linked with the library), one statement per step.             *)

NumSegments == 29

letters ==
  << <<65, 66, 67, 68, 69, 70, 71>>,      \* "ABCDEFG"
     <<72, 73, 74, 75, 76, 77, 78>>,      \* "HIJKLMN"
     <<79, 80, 81, 82, 83, 84, 85>>,      \* "OPQRSTU"
     <<86, 87, 88, 89, 90>>,              \* "VWXYZ"
     <<48, 49, 50, 51, 52, 53, 54>>,      \* "0123456"
     <<55, 56, 57>> >>                    \* "789", then NULL

numbers ==
  << <<48, 49, 50, 51>>,                  \* "0123"
     <<52, 53, 54>>,                      \* "456"
     <<55, 56, 57, 48>> >>                \* "7890", then NULL

\* Whether numbers[i] == NULL (i counted from 0).  numbers has 4 elements:
\* for i > 3 the read is outside the array and either answer can come back.
numbers_is_null(i) ==
  IF i < 3 THEN {FALSE} ELSE IF i = 3 THEN {TRUE} ELSE {TRUE, FALSE}

\* segment_mask_index computed with 6 segments to the byte.
segment_mask_index_by_six(j) == j \div 6

segment_mask_index(j) == j \div 8

segment_mask(j) == U8(Shr(\h80, j % 8))

\* The wait at the top of an update that never waits.
wait_for_ready_never(prog, sem) == FALSE

\* The condition of the wait loop at the top of an update: while it holds,
\* main sleeps and tests again.
wait_for_ready(prog, sem) ==
  IF prog = "test_multiseg" THEN sem = 1 ELSE sem < 2

\* A wait loop after semaphore = 0 that is never entered.
wait_for_read_back_never(sem) == FALSE

\* The condition of the wait loop after semaphore = 0 in the segment test.
wait_for_read_back(sem) == sem < 2

\* while (semaphore == 1) / while (semaphore < 2): leave the loop.
MainReady ==
  /\ ppc = "wait_ready"
  /\ ~wait_for_ready(program, semaphore)
  /\ ppc' = "set"
  /\ main_i' = 0
  /\ UNCHANGED <<progVars, bufVars, consVars, cancel_req, wireVars, renderVars,
                 main_j, render_i, render_arg, daemonVars, ghostVars>>

\* block[i][segment_mask_index] = block[i][segment_mask_index] | segment_mask
MainSetSegment ==
  /\ ppc = "set"
  /\ block' = [block EXCEPT ![main_i][segment_mask_index(main_j)] =
                              BitOr(@, segment_mask(main_j))]
  /\ IF main_i + 1 < 5
     THEN main_i' = main_i + 1 /\ UNCHANGED ppc
     ELSE main_i' = 0 /\ ppc' = "stage"
  /\ UNCHANGED <<progVars, local_block, semaphore, consVars, cancel_req, wireVars,
                 renderVars, main_j, render_i, render_arg, daemonVars, ghostVars>>

\* semaphore = 0 of the segment test
MainStage ==
  /\ ppc = "stage"
  /\ semaphore' = 0
  /\ staged' = staged \cup {block}
  /\ gen' = gen + 1
  /\ staged_block' = block
  /\ ppc' = "wait_back"
  /\ UNCHANGED <<baseVars, shutdown_log, adopted, adopted_block,
                 block, local_block, consVars, cancel_req, wireVars,
                 renderVars, main_i, main_j, render_i, render_arg, daemonVars,
                 txVars>>

\* while (semaphore < 2): leave the loop.
MainReadBack ==
  /\ ppc = "wait_back"
  /\ ~wait_for_read_back(semaphore)
  /\ ppc' = "undo"
  /\ main_i' = 0
  /\ UNCHANGED <<progVars, bufVars, consVars, cancel_req, wireVars, renderVars,
                 main_j, render_i, render_arg, daemonVars, ghostVars>>

\* block[i][segment_mask_index] = block[i][segment_mask_index] & (~segment_mask),
\* then sleep and the next j; after the last j the letters (part_004) or the
\* end of the test (test_multiseg.c).
MainUndoSegment ==
  /\ ppc = "undo"
  /\ block' = [block EXCEPT ![main_i][segment_mask_index(main_j)] =
                              BitAnd(@, Not8(segment_mask(main_j)))]
  /\ IF main_i + 1 < 5
     THEN main_i' = main_i + 1 /\ UNCHANGED <<ppc, main_j>>
     ELSE IF main_j + 1 < NumSegments
     THEN main_i' = 0 /\ main_j' = main_j + 1 /\ ppc' = "wait_ready"
     ELSE IF program = "test_multiseg"
     THEN main_i' = 0 /\ main_j' = main_j + 1 /\ ppc' = "cancel"
     ELSE main_i' = 0 /\ main_j' = 1 /\ ppc' = "letters_wait"
  /\ UNCHANGED <<progVars, local_block, semaphore, consVars, cancel_req, wireVars,
                 renderVars, render_i, render_arg, daemonVars, ghostVars>>

\* part_004, the letters: while (semaphore < 2): leave the loop.
MainLettersReady ==
  /\ ppc = "letters_wait"
  /\ ~wait_for_ready(program, semaphore)
  /\ ppc' = "alphanum_clear"
  /\ UNCHANGED <<progVars, bufVars, consVars, cancel_req, wireVars, renderVars,
                 main_i, main_j, render_i, render_arg, daemonVars, ghostVars>>

\* ltm_render_alphanum(letters[i], block): the call of ltm_clear_alphanum
MainAlphanumClear ==
  /\ ppc = "alphanum_clear"
  /\ block' = ltm_clear_alphanum(block)
  /\ render_i' = 0
  /\ ppc' = "alphanum_char"
  /\ UNCHANGED <<progVars, local_block, semaphore, consVars, cancel_req, wireVars,
                 renderVars, main_i, main_j, render_arg, daemonVars, ghostVars>>

\* ltm_render_alphanum(letters[i], block): one pass of the loop, or its end.
MainAlphanumChar ==
  /\ ppc = "alphanum_char"
  /\ IF render_i < 7 /\ render_i < Len(letters[main_i + 1])
     THEN /\ block' = render_alphanum_char(
                        ltm_find_alphanum_code(letters[main_i + 1][render_i + 1]),
                        block, render_i)
          /\ render_i' = render_i + 1
          /\ UNCHANGED ppc
     ELSE /\ ppc' = "numbers"
          /\ render_i' = 0
          /\ UNCHANGED block
  /\ UNCHANGED <<progVars, local_block, semaphore, consVars, cancel_req, wireVars,
                 renderVars, main_i, main_j, render_arg, daemonVars, ghostVars>>

\* if (j && numbers[i] != NULL) ... else if (numbers[i] == NULL) ...
MainNumbers ==
  /\ ppc = "numbers"
  /\ \E is_null \in numbers_is_null(main_i) :
       IF main_j # 0 /\ ~is_null
       THEN /\ render_arg' = numbers[main_i + 1]
            /\ ppc' = "numeric_clear"
            /\ UNCHANGED main_j
       ELSE IF is_null
       THEN /\ render_arg' = << >>
            /\ main_j' = 0
            /\ ppc' = "numeric_clear"
       ELSE /\ ppc' = "letters_stage"
            /\ UNCHANGED <<main_j, render_arg>>
  /\ UNCHANGED <<progVars, bufVars, consVars, cancel_req, wireVars, renderVars,
                 main_i, render_i, daemonVars, ghostVars>>

\* ltm_render_numeric(render_arg, block): the call of ltm_clear_numeric
MainNumericClear ==
  /\ ppc = "numeric_clear"
  /\ block' = ltm_clear_numeric(block)
  /\ render_i' = 0
  /\ ppc' = "numeric_char"
  /\ UNCHANGED <<progVars, local_block, semaphore, consVars, cancel_req, wireVars,
                 renderVars, main_i, main_j, render_arg, daemonVars, ghostVars>>

\* ltm_render_numeric(render_arg, block): one pass of the loop, or its end.
MainNumericChar ==
  /\ ppc = "numeric_char"
  /\ IF render_i < 4 /\ render_i < Len(render_arg)
     THEN /\ block' = render_numeric_char(
                        ltm_find_numeric_code(render_arg[render_i + 1]),
                        block, render_i)
          /\ render_i' = render_i + 1
          /\ UNCHANGED <<ppc, render_arg>>
     ELSE /\ ppc' = "letters_stage"
          /\ render_i' = 0
          /\ render_arg' = << >>
          /\ UNCHANGED block
  /\ UNCHANGED <<progVars, local_block, semaphore, consVars, cancel_req, wireVars,
                 renderVars, main_i, main_j, daemonVars, ghostVars>>

\* semaphore = 0; sleep(5); i++ of the letters
MainLettersStage ==
  /\ ppc = "letters_stage"
  /\ semaphore' = 0
  /\ staged' = staged \cup {block}
  /\ gen' = gen + 1
  /\ staged_block' = block
  /\ main_i' = main_i + 1
  /\ ppc' = IF main_i + 1 < Len(letters) THEN "letters_wait" ELSE "cancel"
  /\ UNCHANGED <<baseVars, shutdown_log, adopted, adopted_block,
                 block, local_block, consVars, cancel_req, wireVars,
                 renderVars, main_j, render_i, render_arg, daemonVars,
                 txVars>>

\* pthread_cancel(blaster_thread)
MainCancel ==
  /\ ppc = "cancel"
  /\ cancel_req' = TRUE
  /\ ppc' = "join"
  /\ UNCHANGED <<progVars, bufVars, consVars, wireVars, renderVars, main_i, main_j,
                 render_i, render_arg, daemonVars, ghostVars>>

\* pthread_join returning without waiting for the refresh thread to end.
MainJoin_no_wait ==
  /\ ppc = "join"
  /\ ppc' = "joined"
  /\ UNCHANGED <<progVars, bufVars, consVars, cancel_req, wireVars, renderVars,
                 main_i, main_j, render_i, render_arg, daemonVars, ghostVars>>

\* pthread_join(blaster_thread, NULL) returns
MainJoin ==
  /\ ppc = "join"
  /\ cpc = "cancelled"
  /\ ppc' = "joined"
  /\ UNCHANGED <<progVars, bufVars, consVars, cancel_req, wireVars, renderVars,
                 main_i, main_j, render_i, render_arg, daemonVars, ghostVars>>

\* The calls of ltm_display_shutdown (ltmy2k19jf03.c lines 149-157), which
\* test_multiseg.c makes inline (lines 342-352): <<function, pin, argument>>.
ltm_display_shutdown_calls ==
  << <<"gpio_write_pin", "reset", "HIGH">>,
     <<"ltm_sleep", "none", "1">>,
     <<"gpio_write_pin", "reset", "LOW">>,
     <<"gpio_unexport_pin", "data", "none">>,
     <<"gpio_unexport_pin", "clock", "none">>,
     <<"gpio_unexport_pin", "reset", "none">> >>

\* One call of the shutdown sequence; the return values are not looked at.
DisplayShutdownCall ==
  /\ ppc = "joined"
  /\ Len(shutdown_log) < Len(ltm_display_shutdown_calls)
  /\ shutdown_log' = Append(shutdown_log,
                            ltm_display_shutdown_calls[Len(shutdown_log) + 1])
  /\ UNCHANGED <<baseVars, handoffVars, bufVars, consVars, cancel_req, wireVars,
                 renderVars, prodVars, daemonVars, ghostVars>>

\* return 0 of main
MainReturn ==
  /\ ppc = "joined"
  /\ Len(shutdown_log) = Len(ltm_display_shutdown_calls)
  /\ ppc' = "returned"
  /\ UNCHANGED <<progVars, bufVars, consVars, cancel_req, wireVars, renderVars,
                 main_i, main_j, render_i, render_arg, daemonVars, ghostVars>>

\* The refresh thread transmits local_block[current_block_counter]: the call
\* of ltm_blast_block / blast_block as one step.
BlastGroup ==
  /\ cpc = "blast"
  /\ cpc' = "testcancel"
  /\ prev_tx_group' = last_tx_group
  /\ last_tx_group' = current_block_counter
  /\ last_tx_frame' = blast_block_copy(local_block[current_block_counter])
  /\ UNCHANGED <<progVars, bufVars, current_block_counter, copy_i, copy_j, creg,
                 cancel_req, wireVars, renderVars, prodVars, daemonVars, staged>>

----------------------------------------------------------------------------
(* The single-loop daemons: main of the first daemon (ltmy2k19jf03.c lines *)
(* 502-583) and of the second (lines 724-875).  ltm_clear() is declared in *)
(* ltmy2k19jf03.h and defined in none of the sources; the loop is entered  *)
(* with block and the strings as initialised.                              *)

DaemonPrograms == {"ltmy2kd_v1", "ltmy2kd"}

POLL_TIMEOUT_BLANK == 5000

POLL_TIMEOUT_DATA_V1 == 500

POLL_TIMEOUT_DATA == 2

\* A command line after strtok: its first token and the rest of the line
\* (has_arg = FALSE when strtok(NULL, "\n") returns NULL).
Commands ==
  { [verb |-> "ALPHA", has_arg |-> TRUE, arg |-> <<84, 69, 83, 84, 73, 78, 71>>],
    [verb |-> "ALPHA", has_arg |-> FALSE, arg |-> << >>],
    [verb |-> "NUM", has_arg |-> TRUE, arg |-> <<49, 50>>],
    [verb |-> "NUM", has_arg |-> FALSE, arg |-> << >>],
    [verb |-> "RESET", has_arg |-> TRUE, arg |-> <<49, 50>>],
    [verb |-> "ALPHA", has_arg |-> TRUE, arg |-> <<72, 73>>],
    [verb |-> "ALPHA", has_arg |-> TRUE,
     arg |-> <<65, 66, 67, 68, 69, 70, 71, 72, 73>>],
    [verb |-> "NUM", has_arg |-> TRUE, arg |-> <<55>>] }

\* strncpy(dst, token, n) as the string the render functions read from dst.
strncpy(token, n) == SubSeq(token, 1, IF Len(token) < n THEN Len(token) ELSE n)

\* found_cmd taking every verb other than ALPHA for NUM.
found_cmd_else_num(c) == IF c.verb = "ALPHA" THEN 1 ELSE 2

found_cmd(c) == IF c.verb = "ALPHA" THEN 1 ELSE IF c.verb = "NUM" THEN 2 ELSE 0

\* The blank test looking at alphanum_string only.
strings_blank_alphanum_only == alphanum_string = << >>

strings_blank == alphanum_string = << >> /\ numeric_string = << >>

next_block(c) == IF c + 1 >= 5 THEN 0 ELSE c + 1

\* The head of the loop: the transmission of block[current_block], the
\* advance of current_block and the choice of the poll timeout.
DaemonBlast ==
  /\ dpc = "blast"
  /\ IF program = "ltmy2kd_v1" /\ strings_blank
     THEN /\ current_poll_timeout' = POLL_TIMEOUT_BLANK
          /\ UNCHANGED <<current_block, txVars, fresh>>
     ELSE /\ prev_tx_group' = last_tx_group
          /\ last_tx_group' = current_block
          /\ fresh' = fresh \cup {current_block}
          /\ last_tx_frame' = blast_block_copy(block[current_block])
          /\ current_block' = next_block(current_block)
          /\ current_poll_timeout' =
               IF program = "ltmy2kd_v1" THEN POLL_TIMEOUT_DATA_V1
               ELSE IF strings_blank THEN POLL_TIMEOUT_BLANK
               ELSE POLL_TIMEOUT_DATA
  /\ since_cmd' = IF since_cmd = -1 \/ since_cmd = Cardinality(Groups)
                  THEN since_cmd ELSE since_cmd + 1
  /\ parsed' = NoCommand
  /\ dpc' = "poll"
  /\ UNCHANGED <<progVars, bufVars, consVars, cancel_req, wireVars, renderVars,
                 prodVars, alphanum_string, numeric_string, staged>>

\* poll returns 0, or a positive value and read returns 0 bytes.
DaemonPollNothing ==
  /\ dpc = "poll"
  /\ dpc' = "blast"
  /\ UNCHANGED <<progVars, bufVars, consVars, cancel_req, wireVars, renderVars,
                 prodVars, alphanum_string, numeric_string, current_block,
                 current_poll_timeout, refreshVars, ghostVars>>

\* poll returns a negative value: exit(1).
DaemonPollError ==
  /\ dpc = "poll"
  /\ dpc' = "exit"
  /\ UNCHANGED <<progVars, bufVars, consVars, cancel_req, wireVars, renderVars,
                 prodVars, alphanum_string, numeric_string, current_block,
                 current_poll_timeout, refreshVars, ghostVars>>

\* parse_command storing the string without the two render calls.
DaemonCommand_no_render ==
  /\ dpc = "poll"
  /\ \E c \in Commands :
       LET a == IF found_cmd(c) = 1
                THEN (IF c.has_arg THEN strncpy(c.arg, 8) ELSE << >>)
                ELSE alphanum_string
           n == IF found_cmd(c) = 2
                THEN (IF c.has_arg THEN strncpy(c.arg, 5) ELSE << >>)
                ELSE numeric_string
       IN  /\ alphanum_string' = a
           /\ numeric_string' = n
           /\ block' = block
           /\ parsed' = [c |-> c, a |-> alphanum_string, n |-> numeric_string,
                         b |-> block]
  /\ since_cmd' = 0
  /\ fresh' = {}
  /\ dpc' = "blast"
  /\ UNCHANGED <<progVars, local_block, semaphore, consVars, cancel_req, wireVars,
                 renderVars, prodVars, current_block, current_poll_timeout,
                 ghostVars>>

\* poll returns a positive value and read a command: parse_command.
DaemonCommand ==
  /\ dpc = "poll"
  /\ \E c \in Commands :
       LET a == IF found_cmd(c) = 1
                THEN (IF c.has_arg THEN strncpy(c.arg, 8) ELSE << >>)
                ELSE alphanum_string
           n == IF found_cmd(c) = 2
                THEN (IF c.has_arg THEN strncpy(c.arg, 5) ELSE << >>)
                ELSE numeric_string
       IN  /\ alphanum_string' = a
           /\ numeric_string' = n
           /\ block' = render(a, n, block)
           /\ parsed' = [c |-> c, a |-> alphanum_string, n |-> numeric_string,
                         b |-> block]
  /\ since_cmd' = 0
  /\ fresh' = {}
  /\ dpc' = "blast"
  /\ UNCHANGED <<progVars, local_block, semaphore, consVars, cancel_req, wireVars,
                 renderVars, prodVars, current_block, current_poll_timeout,
                 ghostVars>>

----------------------------------------------------------------------------
(* The four programs with a refresh loop, a group transmission per step.   *)

Init ==
  /\ program \in ThreadPrograms \cup DaemonPrograms
  /\ backend = "wiringpi"
  /\ block = InitBlock
  /\ local_block = InitBlock
  /\ semaphore = 2
  /\ cpc = IF program \in ThreadPrograms THEN "blast" ELSE "none"
  /\ current_block_counter = 0
  /\ copy_i = 0
  /\ copy_j = 0
  /\ creg = 0
  /\ cancel_req = FALSE
  /\ WireIdle
  /\ RenderIdle
  /\ ppc = IF program \in ThreadPrograms THEN "wait_ready" ELSE "none"
  /\ main_i = 0
  /\ main_j = 0
  /\ render_i = 0
  /\ render_arg = << >>
  /\ alphanum_string = << >>
  /\ numeric_string = << >>
  /\ current_block = 0
  /\ current_poll_timeout = 0
  /\ dpc = IF program \in DaemonPrograms THEN "blast" ELSE "none"
  /\ since_cmd = -1
  /\ fresh = {}
  /\ parsed = NoCommand
  /\ GhostIdle
  /\ ShutdownIdle
  /\ HandoffIdle
  /\ GpioIdle
  /\ IoIdle
  /\ SleepIdle
  /\ StartupIdle
  /\ CodecIdle

Next ==
  \/ BlastGroup
  \/ TestCancel
  \/ Advance
  \/ Sleep
  \/ GrabCheck
  \/ SemLoad
  \/ Inc1Store
  \/ PreStore
  \/ CopyByte
  \/ Inc2Store
  \/ DecStore
  \/ MainReady
  \/ MainSetSegment
  \/ MainStage
  \/ MainReadBack
  \/ MainUndoSegment
  \/ MainLettersReady
  \/ MainAlphanumClear
  \/ MainAlphanumChar
  \/ MainNumbers
  \/ MainNumericClear
  \/ MainNumericChar
  \/ MainLettersStage
  \/ MainCancel
  \/ MainJoin
  \/ DisplayShutdownCall
  \/ MainReturn
  \/ DaemonBlast
  \/ DaemonPollNothing
  \/ DaemonPollError
  \/ DaemonCommand

Spec == Init /\ [][Next]_vars

----------------------------------------------------------------------------
(* Claims about the refresh loops and the hand-off (checked under Spec).   *)

\* The complete generations: the initial buffer and every value of `block`
\* at a semaphore = 0 of main.
Generations == {InitBlock} \cup staged

\* The statements of main that write `block`.
MainWrites ==
  ppc \in {"set", "undo", "alphanum_clear", "alphanum_char", "numeric_clear",
           "numeric_char"}

\* C1: in both test programs, under every interleaving, the working buffer
\* local_block is the initial buffer or one complete staged generation
\* whenever the refresh thread is not inside its copy loop, and every group
\* frame it transmits is read from such a buffer.
C1_WholeGeneration ==
  program \in ThreadPrograms =>
    /\ cpc # "copy" => local_block \in Generations
    /\ last_tx_group # -1 =>
         \E g \in Generations : last_tx_frame = blast_block_copy(g[last_tx_group])

C1_Witness ==
  /\ program = "test_multiseg_lib"
  /\ cpc = "testcancel"
  /\ ppc = "alphanum_char"
  /\ render_i = 3
  /\ local_block \in staged
  /\ local_block # block
  /\ Cardinality(staged) = NumSegments + 2
  /\ last_tx_group = 4
  /\ last_tx_frame = local_block[4]

\* C8: in every refresh loop the group index is in 0..4, the first group
\* transmitted is group 0, and each transmission is of the group after the
\* previous one, modulo 5.
C8_GroupCycle ==
  /\ current_block_counter \in 0 .. 4
  /\ current_block \in 0 .. 4
  /\ last_tx_group = -1 => (current_block_counter = 0 /\ current_block = 0)
  /\ (last_tx_group # -1 /\ prev_tx_group = -1) => last_tx_group = 0
  /\ prev_tx_group # -1 => last_tx_group = (prev_tx_group + 1) % 5
  /\ (last_tx_group # -1 /\ program \in DaemonPrograms) =>
       current_block = (last_tx_group + 1) % 5

C8_Witness ==
  /\ program = "test_multiseg"
  /\ prev_tx_group = 4
  /\ last_tx_group = 0
  /\ cpc = "advance"
  /\ staged # {}

\* C9: in both test programs the flag only ever holds 2 (IDLE), 0 (STAGED)
\* or 1 (being copied), and changes only 2 -> 0 -> 1 -> 2.
C9_ThreeStateFlag ==
  program \in ThreadPrograms => semaphore \in {0, 1, 2}

\* C10: main never modifies `block` while the flag is STAGED (0) or being
\* copied (1), and sets the flag to STAGED only when its writes are done.
C10_WritesOnlyWhenIdle ==
  (program \in ThreadPrograms /\ MainWrites) => semaphore \notin {0, 1}

----------------------------------------------------------------------------
(* Claims about the hand-off seen from the refresh thread (SpecWire).      *)

\* The statements of blast_blocks_loop that read or test the flag, and the
\* copy loop, which reads `block`.
ConsumerGrabs ==
  cpc \in {"grab", "inc1_load", "inc1_store", "pre_store", "copy", "inc2_load",
           "inc2_store", "dec_load", "dec_store"}

\* C11: the refresh thread tests the flag and reads `block` only between two
\* group transmissions, never while one is in progress; when it has found
\* the staged update, the next transmission starts with all 25 bytes copied
\* into local_block and the flag back at IDLE (2).
C11_CopyBetweenGroups ==
  /\ ConsumerGrabs => ~in_group
  /\ in_group => cpc \in {"blast_bit", "cancelled"}
  /\ (cpc \in {"blast", "blast_bit"} /\ local_block # InitBlock) =>
       (local_block = block /\ semaphore = 2)
  /\ cpc \in {"inc2_load", "inc2_store"} => (local_block = block /\ semaphore = 1)

C11_Witness ==
  /\ program = "test_multiseg_lib"
  /\ cpc = "blast_bit"
  /\ in_group
  /\ bit_index = 20
  /\ current_block_counter = 1
  /\ local_block = block
  /\ local_block # InitBlock
  /\ semaphore = 2

----------------------------------------------------------------------------
(* Startup of the daemons: gpio_init, ltm_display_init and the tests of    *)
(* their results (ltmy2k19jf03.c lines 527-537 and 815-825), followed by   *)
(* the refresh loop.                                                       *)

\* The GPIO calls of ltm_display_init, in order.
display_init_calls ==
  << "gpio_export_pin", "gpio_set_direction", "gpio_export_pin",
     "gpio_set_direction", "gpio_export_pin", "gpio_set_direction" >>

\* What a GPIO call of ltm_display_init can return.  With sysfs both
\* functions return -1 when the sysfs file cannot be opened (or written, for
\* the direction); with wiringPi they return 0 for an output pin.
gpio_call_results(be, fn) == IF be = "sysfs" THEN {0, -1} ELSE {0}

\* The value ltm_display_init returns.
ltm_display_init_result(failed) == 0

\* retval = gpio_init(); if (retval != 0) exit(1);
GpioInit ==
  /\ spc = "gpio_init"
  /\ \E r \in {0, -1} :
       /\ retval' = r
       /\ spc' = IF r # 0 THEN "exit" ELSE "display_init"
  /\ UNCHANGED <<program, backend, codecVars, shutdown_log, handoffVars, ioVars, sleepVars,
                 gpioVars, init_step, gpio_failed, bufVars,
                 consVars, cancel_req, wireVars, renderVars, loopVars>>

\* ltm_display_init: one call of gpio_export_pin or gpio_set_direction, its
\* result dropped.
DisplayInitCall ==
  /\ spc = "display_init"
  /\ init_step < Len(display_init_calls)
  /\ \E r \in gpio_call_results(backend, display_init_calls[init_step + 1]) :
       gpio_failed' = (gpio_failed \/ r # 0)
  /\ init_step' = init_step + 1
  /\ UNCHANGED <<program, backend, codecVars, shutdown_log, handoffVars, ioVars, sleepVars,
                 gpioVars, spc, retval, bufVars, consVars,
                 cancel_req, wireVars, renderVars, loopVars>>

\* ltm_display_init: the pin numbers are stored and 0 is returned.
DisplayInitReturn ==
  /\ spc = "display_init"
  /\ init_step = Len(display_init_calls)
  /\ retval' = ltm_display_init_result(gpio_failed)
  /\ spc' = "check"
  /\ UNCHANGED <<program, backend, codecVars, shutdown_log, handoffVars, ioVars, sleepVars,
                 gpioVars, init_step, gpio_failed, bufVars,
                 consVars, cancel_req, wireVars, renderVars, loopVars>>

\* if (retval != 0) exit(1); otherwise the refresh loop is entered.
CheckInit ==
  /\ spc = "check"
  /\ IF retval # 0
     THEN spc' = "exit" /\ UNCHANGED dpc
     ELSE spc' = "loop" /\ dpc' = "blast"
  /\ UNCHANGED <<program, backend, codecVars, shutdown_log, handoffVars, ioVars, sleepVars,
                 gpioVars, init_step, gpio_failed, retval,
                 bufVars, consVars, cancel_req, wireVars, renderVars, prodVars,
                 alphanum_string, numeric_string, current_block,
                 current_poll_timeout, refreshVars, ghostVars>>

InitStartup ==
  /\ program \in DaemonPrograms
  /\ backend \in Backends
  /\ spc = "gpio_init"
  /\ init_step = 0
  /\ gpio_failed = FALSE
  /\ retval = 0
  /\ block = InitBlock
  /\ ThreadIdle
  /\ WireIdle
  /\ RenderIdle
  /\ MainIdle
  /\ DaemonIdle
  /\ GhostIdle
  /\ ShutdownIdle
  /\ HandoffIdle
  /\ GpioIdle
  /\ IoIdle
  /\ SleepIdle
  /\ CodecIdle

NextStartup ==
  \/ GpioInit
  \/ DisplayInitCall
  \/ DisplayInitReturn
  \/ CheckInit
  \/ DaemonBlast
  \/ DaemonPollNothing
  \/ DaemonPollError
  \/ DaemonCommand

SpecStartup == InitStartup /\ [][NextStartup]_vars

\* C12: when a pin export or set-direction call of ltm_display_init has
\* failed, ltm_display_init returns non-zero and the daemon exits: it never
\* enters the refresh loop and never transmits a group.
C12_InitFailureReported ==
  gpio_failed =>
    /\ spc \in {"display_init", "check", "exit"}
    /\ spc = "check" => retval # 0
    /\ last_tx_group = -1

----------------------------------------------------------------------------
(* CharacterCodec as a machine: a character is chosen and the two find     *)
(* functions are called on it.  A char is modelled by its value as an      *)
(* unsigned char; the table holds values below 128 only.                   *)

Chars == 0 .. 255

FindAlphanumCode ==
  /\ codec_fn' = "alphanum"
  /\ codec_code' = ltm_find_alphanum_code(codec_char)
  /\ UNCHANGED <<program, backend, startVars, shutdown_log, handoffVars, ioVars, sleepVars,
                 gpioVars, codec_char, bufVars, consVars,
                 cancel_req, wireVars, renderVars, loopVars>>

FindNumericCode ==
  /\ codec_fn' = "numeric"
  /\ codec_code' = ltm_find_numeric_code(codec_char)
  /\ UNCHANGED <<program, backend, startVars, shutdown_log, handoffVars, ioVars, sleepVars,
                 gpioVars, codec_char, bufVars, consVars,
                 cancel_req, wireVars, renderVars, loopVars>>

InitCodec ==
  /\ program = "codec"
  /\ backend = "none"
  /\ codec_char \in Chars
  /\ codec_fn = "none"
  /\ codec_code = 0
  /\ block = InitBlock
  /\ ThreadIdle
  /\ WireIdle
  /\ RenderIdle
  /\ MainIdle
  /\ DaemonIdle
  /\ GhostIdle
  /\ ShutdownIdle
  /\ HandoffIdle
  /\ GpioIdle
  /\ IoIdle
  /\ SleepIdle
  /\ StartupIdle

NextCodec ==
  \/ FindAlphanumCode
  \/ FindNumericCode

SpecCodec == InitCodec /\ [][NextCodec]_vars

\* 'A'..'Z' and '0'..'9'
IsUpper(c) == c >= 65 /\ c <= 90

IsDigit(c) == c >= 48 /\ c <= 57

\* The rows of alphanum_chars (terminator excluded) listing character c.
TableRows(c) ==
  {i \in 1 .. Len(alphanum_chars) - 1 : alphanum_chars[i][1] = c}

FoldInput(c) == IF IsDigit(c) THEN ltm_find_alphanum_code(c) ELSE \h03FC

\* Whether bit 0x0080 or bit 0x0008 of a code is set.
HasMiddle(code) == ((code \div 128) % 2 = 1) \/ ((code \div 8) % 2 = 1)

\* A byte with bit 0x02 forced to the given value.
WithBit2(byte, on) ==
  byte - (IF (byte \div 2) % 2 = 1 THEN 2 ELSE 0) + (IF on THEN 2 ELSE 0)

\* C14 as stated: ltm_find_numeric_code(c) is the high byte of the code
\* (code >> 8) with bit 0x02 set exactly when the code has bit 0x0080 or
\* 0x0008; for a non-digit the same fold of 0x03FC.
C14_FoldOfHighByte ==
  codec_fn = "numeric" =>
    codec_code = WithBit2(FoldInput(codec_char) \div 256,
                          HasMiddle(FoldInput(codec_char)))

\* C14, amended: ltm_find_numeric_code(c) is the top six bits of the high
\* byte of the code ((code & 0xFC00) >> 8: bits 0x0200 and 0x0100 of the code
\* are dropped), with bit 0x02 set exactly when the code has bit 0x0080 or
\* 0x0008 and bit 0x01 always clear; for a non-digit the same fold of 0x03FC,
\* which is 0x02.
C14_FoldOfTopSixBits ==
  codec_fn = "numeric" =>
    /\ codec_code =
         ((FoldInput(codec_char) \div 1024) * 4)
           + (IF HasMiddle(FoldInput(codec_char)) THEN 2 ELSE 0)
    /\ ~IsDigit(codec_char) => codec_code = \h02

C14_Witness ==
  /\ codec_fn = "numeric"
  /\ codec_char = 49
  /\ FoldInput(codec_char) = \h6100
  /\ codec_code = \h60

----------------------------------------------------------------------------
(* Claims about the layout of the rendered strings (SpecRender).           *)

\* The code of the character at position k (from 0) of s, 0 past its end.
CellCode(s, k) == IF k < Len(s) THEN ltm_find_alphanum_code(s[k + 1]) ELSE 0

DigitCode(s, k) == IF k < Len(s) THEN ltm_find_numeric_code(s[k + 1]) ELSE 0

\* The first n characters of s.
Prefix(s, n) == SubSeq(s, 1, IF Len(s) < n THEN Len(s) ELSE n)

\* C15: after ltm_render_alphanum(s, block) on any buffer, cells 0..4 hold
\* the codes of s[0..4] in bytes 0 and 1 (high 6 bits) of groups 0..4, cells
\* 5 and 6 hold the codes of s[5] and s[6] in bytes 1 (low 2 bits), 2 and 3
\* (high nibble) of groups 3 and 4, cells past the end of s are zero and
\* characters after the 7th change nothing.
C15_AlphanumLayout ==
  last_op.op = "render_alphanum" =>
    /\ \A k \in 0 .. 4 :
         /\ block[k][0] = CellCode(last_op.a, k) \div 256
         /\ block[k][1] \div 4 = (CellCode(last_op.a, k) % 256) \div 4
    /\ \A k \in 5 .. 6 :
         /\ block[k - 2][1] % 4 = CellCode(last_op.a, k) \div 16384
         /\ block[k - 2][2] = (CellCode(last_op.a, k) \div 64) % 256
         /\ block[k - 2][3] \div 16 = (CellCode(last_op.a, k) % 64) \div 4
    /\ block = ltm_render_alphanum(Prefix(last_op.a, 7), prev_block)

C15_Witness ==
  /\ last_op.op = "render_alphanum"
  /\ Len(last_op.a) = 8
  /\ prev_block = AllOnes
  /\ block[4][2] = (ltm_find_alphanum_code(78) \div 64) % 256
  /\ block[4][2] # 0

\* C16: after ltm_render_numeric(s, block) on any buffer, groups 0, 3 and 4
\* and the alphanumeric-owned and mux-select bits of groups 1 and 2 are as
\* before; group 1 holds the codes of s[0] and s[2], group 2 those of s[1]
\* and s[3], the first of the two in byte 1 (low 2 bits) and byte 2 (high 5
\* bits), the second in byte 2 (low 3 bits) and byte 3 (high nibble); digits
\* past the end of s are zero and characters after the 4th change nothing.
C16_NumericLayout ==
  last_op.op = "render_numeric" =>
    /\ \A g \in {0, 3, 4} : block[g] = prev_block[g]
    /\ \A g \in 1 .. 2 :
         /\ block[g][0] = prev_block[g][0]
         /\ block[g][1] \div 4 = prev_block[g][1] \div 4
         /\ block[g][3] % 16 = prev_block[g][3] % 16
         /\ block[g][4] = prev_block[g][4]
         /\ block[g][1] % 4 = DigitCode(last_op.n, g - 1) \div 64
         /\ block[g][2] = ((DigitCode(last_op.n, g - 1) % 64) \div 2) * 8
                            + DigitCode(last_op.n, g + 1) \div 32
         /\ block[g][3] \div 16 = (DigitCode(last_op.n, g + 1) % 32) \div 2
    /\ block = ltm_render_numeric(Prefix(last_op.n, 4), prev_block)

C16_Witness ==
  /\ last_op.op = "render_numeric"
  /\ Len(last_op.n) = 5
  /\ prev_block = AllOnes
  /\ block[0] = AllOnes[0]
  /\ block[2][3] \div 16 = (ltm_find_numeric_code(52) % 32) \div 2
  /\ block[2][3] \div 16 # 0

\* C17: ltm_render_alphanum(s) applied to its own result gives that result
\* again, and so does ltm_render_numeric(s), for every buffer and string.
C17_RenderIdempotent ==
  /\ last_op.op = "render_alphanum" =>
       ltm_render_alphanum(last_op.a, block) = block
  /\ last_op.op = "render_numeric" =>
       ltm_render_numeric(last_op.n, block) = block

C17_Witness ==
  /\ last_op.op = "render_alphanum"
  /\ last_op.a = <<97, 32, 42>>
  /\ start_block = AllOnes
  /\ block # prev_block
  /\ ltm_render_alphanum(last_op.a, block) = block

----------------------------------------------------------------------------
(* Claims about the frame buffers of the running programs (Spec).          *)

\* C18: in every frame buffer (block of the daemons, block and local_block
\* of the test programs) the low 6 bits of byte 4 of every group are zero.
C18_StopBitsZero ==
  \A g \in Groups : block[g][4] % 64 = 0 /\ local_block[g][4] % 64 = 0

C18_Witness ==
  /\ program = "test_multiseg_lib"
  /\ ppc = "stage"
  /\ main_j = NumSegments - 1
  /\ (block[4][3] \div 8) % 2 = 1
  /\ local_block # InitBlock
  /\ local_block # block

\* The initial buffer with the daemon's two strings rendered into it.
FullRender ==
  ltm_render_numeric(numeric_string, ltm_render_alphanum(alphanum_string, InitBlock))

\* C19: in the daemons, after any sequence of commands, block is the initial
\* buffer with only the current alphanum_string and numeric_string rendered
\* into it and the mux-select bits as initially; with the strings "" and
\* "12" the alphanumeric region is zero and the numeric region holds the
\* codes of '1' and '2'.
C19_OnlyLatestStrings ==
  program \in DaemonPrograms =>
    /\ block = FullRender
    /\ MuxSelect(block) = MuxSelect(InitBlock)
    /\ AlphanumOwned(block) = AlphanumOwned(ltm_render_alphanum(alphanum_string, InitBlock))
    /\ NumericOwned(block) = NumericOwned(ltm_render_numeric(numeric_string, InitBlock))
    /\ (alphanum_string = << >> /\ numeric_string = <<49, 50>>) =>
         /\ AlphanumClear(block)
         /\ NumericOwned(block) = (1 :> <<1, 128, 0>> @@ 2 :> <<3, 104, 0>>)

C19_Witness ==
  /\ program = "ltmy2kd"
  /\ dpc = "blast"
  /\ alphanum_string = << >>
  /\ numeric_string = <<49, 50>>
  /\ last_tx_frame[0] # 0
  /\ AlphanumClear(block)
  /\ block[2][2] = 104

\* C20: in the daemons every group transmitted is read from the complete
\* render of the two current strings, and after a command block is that
\* render before the next transmission begins.
C20_TransmitsCompleteRender ==
  program \in DaemonPrograms =>
    /\ dpc = "blast" => block = FullRender
    /\ (dpc = "poll" /\ last_tx_group # -1
          /\ ~(program = "ltmy2kd_v1" /\ strings_blank)) =>
         last_tx_frame = blast_block_copy(FullRender[last_tx_group])

C20_Witness ==
  /\ program = "ltmy2kd"
  /\ dpc = "poll"
  /\ alphanum_string = <<84, 69, 83, 84, 73, 78, 71>>
  /\ numeric_string = <<49, 50>>
  /\ last_tx_group = 3
  /\ prev_tx_group = 2
  /\ last_tx_frame = blast_block_copy(block[3])
  /\ last_tx_frame[2] # 0

----------------------------------------------------------------------------
(* Claims about the refresh cadence of the daemons (Spec).                 *)

\* C21: in both daemons, once 5 loop iterations have followed the last
\* command, every one of the 5 groups has been transmitted since that
\* command, and the group transmitted last is a group of the render of the
\* current strings, also when both strings are empty.  Stated for a display
\* that has been sent at least one group.
C21_RefreshedWithinFive ==
  (program \in DaemonPrograms /\ since_cmd = Cardinality(Groups)
     /\ last_tx_group # -1) =>
    /\ fresh = Groups
    /\ last_tx_frame = blast_block_copy(FullRender[last_tx_group])

\* C22: in both daemons the wait of an iteration uses POLL_TIMEOUT_BLANK
\* exactly when alphanum_string and numeric_string are both empty and the
\* short timeout of the daemon otherwise; a command that ends the wait has
\* been parsed and rendered when the loop head is reached, before any group
\* is transmitted.
C22_IdleTimeoutWhenBlank ==
  program \in DaemonPrograms =>
    /\ dpc = "poll" =>
         current_poll_timeout =
           IF alphanum_string = << >> /\ numeric_string = << >>
           THEN POLL_TIMEOUT_BLANK
           ELSE IF program = "ltmy2kd_v1" THEN POLL_TIMEOUT_DATA_V1
           ELSE POLL_TIMEOUT_DATA
    /\ since_cmd = 0 => (dpc = "blast" /\ fresh = {} /\ block = FullRender)

C22_Witness ==
  /\ program = "ltmy2kd"
  /\ dpc = "poll"
  /\ since_cmd = 2
  /\ alphanum_string = << >>
  /\ numeric_string = << >>
  /\ current_poll_timeout = POLL_TIMEOUT_BLANK
  /\ last_tx_group = 4

\* C23: the shutdown calls are made only once the refresh thread has been
\* cancelled and has ended (pthread_join returned), so no group is
\* transmitted and no data or clock write is made from the reset pulse on;
\* the calls are reset HIGH, a delay, reset LOW, then the unexports of the
\* data, clock and reset pins, in this order, and no pin is written after
\* its unexport.
C23_ShutdownAfterJoin ==
  shutdown_log # << >> =>
    /\ cpc = "cancelled"
    /\ cancel_req
    /\ ppc \in {"joined", "returned"}
    /\ IsPrefix(shutdown_log,
         << <<"gpio_write_pin", "reset", "HIGH">>,
            <<"ltm_sleep", "none", "1">>,
            <<"gpio_write_pin", "reset", "LOW">>,
            <<"gpio_unexport_pin", "data", "none">>,
            <<"gpio_unexport_pin", "clock", "none">>,
            <<"gpio_unexport_pin", "reset", "none">> >>)
    /\ \A m, n \in 1 .. Len(shutdown_log) :
         (m < n /\ shutdown_log[m][1] = "gpio_unexport_pin")
           => ~(shutdown_log[n][1] = "gpio_write_pin"
                  /\ shutdown_log[n][2] = shutdown_log[m][2])
    /\ ppc = "returned" => Len(shutdown_log) = 6

C23_Witness ==
  /\ program = "test_multiseg_lib"
  /\ ppc = "returned"
  /\ cpc = "cancelled"
  /\ Len(shutdown_log) = 6
  /\ shutdown_log[3] = <<"gpio_write_pin", "reset", "LOW">>
  /\ last_tx_group # -1

\* C24: the hand-off has one buffer and no queue.  A copy loop that is
\* entered takes the snapshot staged last, and no later one is staged
\* while it runs; the generation adopted never decreases and changes only
\* to a later one; outside the copy loop local_block is, whole, the snapshot
\* adopted last, so a generation is either taken complete or not at all.
C24_LatestWins ==
  /\ [](program \in ThreadPrograms =>
          /\ adopted <= gen
          /\ cpc = "copy" => (adopted = gen /\ block = staged_block
                                /\ adopted_block = staged_block)
          /\ cpc # "copy" => local_block = adopted_block)
  /\ [][(program \in ThreadPrograms /\ cpc # "copy" /\ cpc' = "copy")
          => adopted < adopted']_vars
  /\ [][(program \in ThreadPrograms /\ ~(cpc # "copy" /\ cpc' = "copy"))
          => adopted' = adopted]_vars

\* A generation has been dropped: the copy loop is entered for generation 3
\* while local_block still holds generation 1 (segment 0 lit in all groups).
C24_Witness ==
  /\ program \in ThreadPrograms
  /\ cpc = "copy"
  /\ copy_i = 0
  /\ copy_j = 0
  /\ adopted = 3
  /\ local_block = [g \in Groups |->
       [InitBlock[g] EXCEPT ![segment_mask_index(0)] = BitOr(@, segment_mask(0))]]

\* C28: once the main thread has left the wait loop that follows its
\* semaphore = 0 (it has read semaphore >= 2), the refresh thread has
\* copied the snapshot staged by that assignment: the generation adopted
\* last is the one staged last, the copy loop has ended and local_block is
\* that snapshot.
C28_ReadBackMeansCopied ==
  (program \in ThreadPrograms /\ ppc = "undo") =>
    /\ adopted = gen
    /\ cpc # "copy"
    /\ local_block = staged_block

----------------------------------------------------------------------------
(* The threaded programs under fair scheduling.  The refresh thread keeps  *)
(* running: whichever step of blast_blocks_loop is next is eventually      *)
(* taken.  A wait loop of main tests the flag again after every            *)
(* ltm_sleep(1), so a flag value that ends the wait and recurs for ever is *)
(* eventually seen.                                                        *)

RefreshThread ==
  \/ BlastGroup
  \/ TestCancel
  \/ Advance
  \/ Sleep
  \/ GrabCheck
  \/ SemLoad
  \/ Inc1Store
  \/ PreStore
  \/ CopyByte
  \/ Inc2Store
  \/ DecStore

MainWaitExit ==
  \/ MainReady
  \/ MainReadBack
  \/ MainLettersReady

SpecFair ==
  /\ Init
  /\ [][Next]_vars
  /\ WF_vars(RefreshThread)
  /\ SF_vars(MainWaitExit)

\* The positions of main inside a wait loop on the flag: before an update,
\* after semaphore = 0, before a letter.
MainWaits == {"wait_ready", "wait_back", "letters_wait"}

\* C29: while the refresh thread keeps iterating, every wait loop of main
\* on the flag is left: the flag does not stay for ever at a value that
\* keeps main waiting.
C29_WaitsTerminate == (ppc \in MainWaits) ~> (ppc \notin MainWaits)

\* Main waits for the read-back while the probe of the refresh thread has
\* driven the flag to 255 and back to 0.
C29_Witness ==
  /\ program = "test_multiseg_lib"
  /\ ppc = "wait_back"
  /\ semaphore = 0
  /\ cpc = "dec_load"
  /\ creg = 255
  /\ ~cancel_req

----------------------------------------------------------------------------
(* The cells of the display as bit positions of the frame buffer           *)
(* (SpecRender).                                                           *)

ZeroBlock == [g \in Groups |-> [k \in Bytes |-> 0]]

\* The bits that the render loops can set for character index k: the
\* placement of a code with every bit set on an empty buffer.
AlphanumCell(k) == render_alphanum_char(\hFFFF, ZeroBlock, k)

NumericCell(k) == render_numeric_char(\hFF, ZeroBlock, k)

\* The mux-select bits as a buffer: byte 3 low 3 bits, byte 4 high 2 bits.
MuxSelectBits ==
  [g \in Groups |->
     [k \in Bytes |-> IF k = 3 THEN \h07 ELSE IF k = 4 THEN \hC0 ELSE 0]]

Regions ==
  [n \in 0 .. 11 |->
     IF n < 7 THEN AlphanumCell(n)
     ELSE IF n < 11 THEN NumericCell(n - 7)
     ELSE MuxSelectBits]

Disjoint(x, y) == \A g \in Groups, k \in Bytes : BitAnd(x[g][k], y[g][k]) = 0

\* The code read back from alphanumeric cell k of buffer b.
ReadAlphanum(b, k) ==
  IF k < 5
  THEN b[k][0] * 256 + BitAnd(b[k][1], \hFC)
  ELSE (b[k - 2][1] % 4) * 16384 + b[k - 2][2] * 64 + (b[k - 2][3] \div 16) * 4

\* The code read back from numeric cell k of buffer b.
ReadNumeric(b, k) ==
  LET g == IF k % 2 = 0 THEN 1 ELSE 2
  IN  IF k < 2
      THEN (b[g][1] % 4) * 64 + (b[g][2] \div 8) * 2
      ELSE (b[g][2] % 8) * 32 + (b[g][3] \div 16) * 2

\* C30: after render(a, n) on the initial buffer the 7 alphanumeric cells,
\* the 4 numeric cells and the mux-select bits are pairwise disjoint sets of
\* bit positions, every cell reads back the full code of its character (0
\* past the end of the string), and no code that the two find functions can
\* return has a bit outside the placement masks.
C30_CellsLossless ==
  (last_op.op = "render" /\ prev_block = InitBlock) =>
    /\ \A m, n \in 0 .. 11 : m # n => Disjoint(Regions[m], Regions[n])
    /\ \A k \in 0 .. 6 : ReadAlphanum(block, k) = CellCode(last_op.a, k)
    /\ \A k \in 0 .. 3 : ReadNumeric(block, k) = DigitCode(last_op.n, k)
    /\ \A c \in Chars :
         /\ BitAnd(ltm_find_alphanum_code(c), ReadAlphanum(AlphanumCell(0), 0))
              = ltm_find_alphanum_code(c)
         /\ BitAnd(ltm_find_alphanum_code(c), ReadAlphanum(AlphanumCell(5), 5))
              = ltm_find_alphanum_code(c)
         /\ BitAnd(ltm_find_numeric_code(c), ReadNumeric(NumericCell(0), 0))
              = ltm_find_numeric_code(c)
         /\ BitAnd(ltm_find_numeric_code(c), ReadNumeric(NumericCell(2), 2))
              = ltm_find_numeric_code(c)

C30_Witness ==
  /\ last_op.op = "render"
  /\ prev_block = InitBlock
  /\ last_op.a = <<84, 69, 83, 84, 73, 78, 71>>
  /\ last_op.n = <<49, 50, 51, 52, 53>>
  /\ ReadAlphanum(block, 6) = ltm_find_alphanum_code(71)
  /\ ReadNumeric(block, 3) = ltm_find_numeric_code(52)
  /\ ReadNumeric(block, 3) # 0

----------------------------------------------------------------------------
(* ltm_sleep (ltmy2k19jf03.c lines 183-204) with delayMicrosecondsHard     *)
(* (lines 170-181); local_sleep of test_multiseg.c (lines 134-155) is the  *)
(* same text.  nanosleep completes, is interrupted by a signal or fails.   *)

\* The values of usec: below, at and above the limit of 100, the 700000 of
\* blast_blocks_loop, and more than one second.
SleepArgs == {0, 1, 99, 100, 2000, 700000, 1000150}

\* How many signals interrupt one call of ltm_sleep.
MaxInterrupts == 3

\* The last time of day considered.
MaxClock == 140

\* The time that passes between two observations of the clock.
ClockSteps == {1, 40}

\* The remaining time nanosleep can report for the request tw.
RemainingAfter(tw) ==
  { tw,
    [sec |-> 0, nsec |-> tw.nsec \div 2],
    [sec |-> 0, nsec |-> 0] }

Interrupts == Cardinality({n \in 1 .. Len(nanosleep_log) : nanosleep_log[n].result = "EINTR"})

\* if (usec < 100) delayMicrosecondsHard(usec), up to timeradd; else the
\* assignments before the loop.
SleepEnter ==
  /\ sleep_pc = "call"
  /\ IF sleep_usec < 100
     THEN /\ tNow' = clock
          /\ tEnd' = clock + sleep_usec
          /\ sleep_pc' = "busy"
          /\ UNCHANGED <<to_wait, remaining, sleep_retval, errno>>
     ELSE /\ to_wait' = [sec |-> sleep_usec \div 1000000, nsec |-> sleep_usec % 1000000]
          /\ remaining' = [sec |-> 0, nsec |-> 0]
          /\ sleep_retval' = -1
          /\ errno' = "EINTR"
          /\ sleep_pc' = "loop"
          /\ UNCHANGED <<tNow, tEnd>>
  /\ UNCHANGED <<program, backend, startVars, codecVars, gpioVars, ioVars, sleep_usec, clock, nanosleep_log,
                 shutdown_log, handoffVars, bufVars, consVars, cancel_req, wireVars,
                 renderVars, loopVars>>

\* while (timercmp(&tNow, &tEnd, <)) gettimeofday(&tNow, NULL)
BusyPoll ==
  /\ sleep_pc = "busy"
  /\ IF tNow < tEnd
     THEN tNow' = clock /\ UNCHANGED sleep_pc
     ELSE sleep_pc' = "returned" /\ UNCHANGED tNow
  /\ UNCHANGED <<program, backend, startVars, codecVars, gpioVars, ioVars, sleep_usec, clock, tEnd, to_wait,
                 remaining, sleep_retval, errno, nanosleep_log,
                 shutdown_log, handoffVars, bufVars, consVars, cancel_req, wireVars,
                 renderVars, loopVars>>

\* Time passes while the busy-wait runs.
ClockTick ==
  /\ sleep_pc = "busy"
  /\ \E d \in ClockSteps :
       /\ clock + d <= MaxClock
       /\ clock' = clock + d
  /\ UNCHANGED <<program, backend, startVars, codecVars, gpioVars, ioVars, sleep_pc, sleep_usec, tNow, tEnd,
                 to_wait, remaining, sleep_retval, errno, nanosleep_log,
                 shutdown_log, handoffVars, bufVars, consVars, cancel_req, wireVars,
                 renderVars, loopVars>>

\* while ((sleep_retval == -1) && (errno == EINTR))
SleepLoopTest ==
  /\ sleep_pc = "loop"
  /\ sleep_pc' = IF sleep_retval = -1 /\ errno = "EINTR" THEN "nanosleep" ELSE "returned"
  /\ UNCHANGED <<program, backend, startVars, codecVars, gpioVars, ioVars, sleep_usec, clock, tNow, tEnd,
                 to_wait, remaining, sleep_retval, errno, nanosleep_log,
                 shutdown_log, handoffVars, bufVars, consVars, cancel_req, wireVars,
                 renderVars, loopVars>>

\* sleep_retval = nanosleep(&to_wait, &remaining)
Nanosleep ==
  /\ sleep_pc = "nanosleep"
  /\ \/ /\ sleep_retval' = 0
        /\ UNCHANGED <<errno, remaining>>
        /\ nanosleep_log' = Append(nanosleep_log,
             [arg |-> to_wait, result |-> "done", rem |-> remaining])
     \/ /\ Interrupts < MaxInterrupts
        /\ \E r \in RemainingAfter(to_wait) :
             /\ remaining' = r
             /\ nanosleep_log' = Append(nanosleep_log,
                  [arg |-> to_wait, result |-> "EINTR", rem |-> r])
        /\ sleep_retval' = -1
        /\ errno' = "EINTR"
     \/ /\ sleep_retval' = -1
        /\ errno' = "EINVAL"
        /\ UNCHANGED remaining
        /\ nanosleep_log' = Append(nanosleep_log,
             [arg |-> to_wait, result |-> "EINVAL", rem |-> remaining])
  /\ sleep_pc' = "assign"
  /\ UNCHANGED <<program, backend, startVars, codecVars, gpioVars, ioVars, sleep_usec, clock, tNow, tEnd,
                 to_wait, shutdown_log, handoffVars, bufVars, consVars, cancel_req,
                 wireVars, renderVars, loopVars>>

\* The loop body leaving to_wait as it is.
SleepAssign_keep_request ==
  /\ sleep_pc = "assign"
  /\ sleep_pc' = "loop"
  /\ UNCHANGED <<program, backend, startVars, codecVars, gpioVars, ioVars, sleep_usec, clock, tNow, tEnd,
                 to_wait, remaining, sleep_retval, errno, nanosleep_log,
                 shutdown_log, handoffVars, bufVars, consVars, cancel_req, wireVars,
                 renderVars, loopVars>>

\* to_wait.tv_sec = remaining.tv_sec; to_wait.tv_nsec = remaining.tv_nsec
SleepAssign ==
  /\ sleep_pc = "assign"
  /\ to_wait' = remaining
  /\ sleep_pc' = "loop"
  /\ UNCHANGED <<program, backend, startVars, codecVars, gpioVars, ioVars, sleep_usec, clock, tNow, tEnd,
                 remaining, sleep_retval, errno, nanosleep_log,
                 shutdown_log, handoffVars, bufVars, consVars, cancel_req, wireVars,
                 renderVars, loopVars>>

InitSleep ==
  /\ program = "ltm_sleep"
  /\ backend = "none"
  /\ block = InitBlock
  /\ ThreadIdle
  /\ WireIdle
  /\ RenderIdle
  /\ MainIdle
  /\ DaemonIdle
  /\ GhostIdle
  /\ ShutdownIdle
  /\ HandoffIdle
  /\ GpioIdle
  /\ IoIdle
  /\ StartupIdle
  /\ CodecIdle
  /\ sleep_pc = "call"
  /\ sleep_usec \in SleepArgs
  /\ clock \in {0, 7}
  /\ tNow = 0
  /\ tEnd = 0
  /\ to_wait = [sec |-> 0, nsec |-> 0]
  /\ remaining = [sec |-> 0, nsec |-> 0]
  /\ sleep_retval = 0
  /\ errno = "none"
  /\ nanosleep_log = << >>

SleepStep ==
  \/ SleepEnter
  \/ BusyPoll
  \/ SleepLoopTest
  \/ Nanosleep
  \/ SleepAssign

NextSleep ==
  \/ SleepEnter
  \/ BusyPoll
  \/ ClockTick
  \/ SleepLoopTest
  \/ Nanosleep
  \/ SleepAssign

SpecSleep ==
  /\ InitSleep
  /\ [][NextSleep]_vars
  /\ WF_vars(SleepStep)
  /\ WF_vars(ClockTick)

\* C25: for usec < 100 ltm_sleep only polls the clock, returns once the
\* deadline is reached and never calls nanosleep; for usec >= 100 it calls
\* nanosleep, every call that follows an interrupted one is given the
\* remaining time that call reported, and it returns only after a call
\* that completed or failed with another error; with at most MaxInterrupts
\* interruptions every call of ltm_sleep returns.
C25_SleepRetriesRemaining ==
  /\ [](sleep_pc # "none" =>
          /\ sleep_usec < 100 =>
               /\ nanosleep_log = << >>
               /\ sleep_pc \in {"call", "busy", "returned"}
               /\ sleep_pc = "returned" => tNow >= tEnd
          /\ sleep_usec >= 100 =>
               /\ sleep_pc \in {"call", "loop", "nanosleep", "assign", "returned"}
               /\ \A n \in 2 .. Len(nanosleep_log) :
                    /\ nanosleep_log[n - 1].result = "EINTR"
                    /\ nanosleep_log[n].arg = nanosleep_log[n - 1].rem
               /\ sleep_pc = "nanosleep" =>
                    (nanosleep_log # << >> =>
                       to_wait = nanosleep_log[Len(nanosleep_log)].rem)
               /\ sleep_pc = "returned" =>
                    /\ nanosleep_log # << >>
                    /\ nanosleep_log[Len(nanosleep_log)].result \in {"done", "EINVAL"})
  /\ (sleep_pc = "call") ~> (sleep_pc = "returned")

\* Two interruptions, the second call made with the remaining time of the
\* first (less than the request), then a call that completes.
C25_Witness ==
  /\ sleep_pc = "returned"
  /\ sleep_usec = 1000150
  /\ Len(nanosleep_log) = 3
  /\ nanosleep_log[1].result = "EINTR"
  /\ nanosleep_log[1].arg = [sec |-> 1, nsec |-> 150]
  /\ nanosleep_log[2].arg = [sec |-> 0, nsec |-> 75]
  /\ nanosleep_log[2].result = "EINTR"
  /\ nanosleep_log[3].result = "done"

----------------------------------------------------------------------------
(* The transmission of a group when a call of gpio_write_pin fails.  The   *)
(* sysfs gpio_write_pin returns -1 when open() or write() fails            *)
(* (sysfs_gpio.c lines 101-116); the wiringPi one always returns 0.        *)

\* How many writes fail in one run.
MaxWriteFailures == 1

\* blast_bit of test_multiseg.c passes every result to check_error, which
\* calls exit(-1) on a non-zero value (lines 93-100, 168-178); blast_bit of
\* the library calls gpio_write_pin as an expression statement (lines
\* 217-224).
blast_bit_checks_result == program = "test_multiseg"

\* gpio_write_pin(pin, setting) called by blast_bit returns -1: the level
\* of the pin is not changed.
GpioWriteFails ==
  /\ cpc = "blast_bit"
  /\ NextStatement[1] \in {"clock", "data"}
  /\ backend = "sysfs"
  /\ write_failures < MaxWriteFailures
  /\ write_failures' = write_failures + 1
  /\ pin_log' = IF bit_step = 0 THEN << <<"failed", NextStatement[2]>> >>
                ELSE Append(pin_log, <<"failed", NextStatement[2]>>)
  /\ IF blast_bit_checks_result
     THEN /\ cpc' = "exit"
          /\ UNCHANGED <<bit_step, bit_index, in_group>>
     ELSE AfterStatement(bit_step)
  /\ UNCHANGED <<program, backend, startVars, codecVars, sleepVars, gpio_call, gpio_ret,
                 shutdown_log, handoffVars, ioVars, bufVars, current_block_counter, copy_i,
                 copy_j, creg, cancel_req, tx_block, clock_pin, data_pin, wire,
                 renderVars, loopVars>>

NextWireFail ==
  \/ BlastEnter
  \/ GpioWritePin
  \/ GpioWriteFails
  \/ BitDelay
  \/ TestCancel
  \/ Advance
  \/ Sleep
  \/ GrabCheck
  \/ SemLoad
  \/ Inc1Store
  \/ PreStore
  \/ CopyByte
  \/ Inc2Store
  \/ DecStore

SpecWireFail == InitWire /\ [][NextWireFail]_vars

\* C26: after a call of gpio_write_pin made by blast_bit has failed, no
\* further write of the same bit is issued: the transmission is aborted,
\* or the bit is started again or skipped.
C26_WriteFailureHandled ==
  \A m, n \in 1 .. Len(pin_log) :
    (m < n /\ pin_log[m][1] = "failed") => pin_log[n][1] \notin {"clock", "data"}

----------------------------------------------------------------------------
(* The four GPIO functions of the two backends (sysfs_gpio.c and           *)
(* wiringpi_gpio.c), called with the same arguments; open(), write() and   *)
(* the wiringPi calls succeed.                                             *)

GPIO_DIR_INPUT == 0

GPIO_DIR_OUTPUT == 1

GPIO_PIN_LOW == 0

GPIO_PIN_HIGH == 1

\* The GPIO numbers of the Raspberry Pi header.
GpioPins == 0 .. 27

\* Direction and level arguments, valid and invalid.
GpioArgs == {-1, 0, 1, 2}

\* The return value of fn(pin, arg) in sysfs_gpio.c.
sysfs_gpio(fn, pin, arg) ==
  CASE fn = "gpio_export_pin" -> 0
    [] fn = "gpio_unexport_pin" -> 0
    [] fn = "gpio_set_direction" ->
         IF arg = GPIO_DIR_INPUT \/ arg = GPIO_DIR_OUTPUT THEN 0 ELSE -1
    [] fn = "gpio_write_pin" ->
         IF arg = GPIO_PIN_LOW \/ arg = GPIO_PIN_HIGH THEN 0 ELSE -1

\* The return value of fn(pin, arg) in wiringpi_gpio.c.
wiringpi_gpio(fn, pin, arg) ==
  CASE fn = "gpio_export_pin" -> 0
    [] fn = "gpio_unexport_pin" -> 0
    [] fn = "gpio_set_direction" ->
         IF arg = GPIO_DIR_INPUT \/ arg = GPIO_DIR_OUTPUT THEN 0 ELSE -1
    [] fn = "gpio_write_pin" -> 0

gpio_function(be, fn, pin, arg) ==
  IF be = "sysfs" THEN sysfs_gpio(fn, pin, arg) ELSE wiringpi_gpio(fn, pin, arg)

\* What a call of a GPIO function leaves as it is.
gpioUnchanged ==
  <<program, backend, startVars, codecVars, sleepVars, write_failures, shutdown_log,
    handoffVars, ioVars, bufVars, consVars, cancel_req, wireVars, renderVars, loopVars>>

GpioExportPin ==
  \E pin \in GpioPins :
    /\ gpio_call' = [fn |-> "gpio_export_pin", pin |-> pin, arg |-> 0]
    /\ gpio_ret' = gpio_function(backend, "gpio_export_pin", pin, 0)
    /\ UNCHANGED gpioUnchanged

GpioUnexportPin ==
  \E pin \in GpioPins :
    /\ gpio_call' = [fn |-> "gpio_unexport_pin", pin |-> pin, arg |-> 0]
    /\ gpio_ret' = gpio_function(backend, "gpio_unexport_pin", pin, 0)
    /\ UNCHANGED gpioUnchanged

GpioSetDirection ==
  \E pin \in GpioPins, direction \in GpioArgs :
    /\ gpio_call' = [fn |-> "gpio_set_direction", pin |-> pin, arg |-> direction]
    /\ gpio_ret' = gpio_function(backend, "gpio_set_direction", pin, direction)
    /\ UNCHANGED gpioUnchanged

GpioWrite ==
  \E pin \in GpioPins, setting \in GpioArgs :
    /\ gpio_call' = [fn |-> "gpio_write_pin", pin |-> pin, arg |-> setting]
    /\ gpio_ret' = gpio_function(backend, "gpio_write_pin", pin, setting)
    /\ UNCHANGED gpioUnchanged

InitGpio ==
  /\ program = "gpio"
  /\ backend \in Backends
  /\ block = InitBlock
  /\ ThreadIdle
  /\ WireIdle
  /\ RenderIdle
  /\ MainIdle
  /\ DaemonIdle
  /\ GhostIdle
  /\ ShutdownIdle
  /\ HandoffIdle
  /\ GpioIdle
  /\ IoIdle
  /\ SleepIdle
  /\ StartupIdle
  /\ CodecIdle

NextGpio ==
  \/ GpioExportPin
  \/ GpioUnexportPin
  \/ GpioSetDirection
  \/ GpioWrite

SpecGpio == InitGpio /\ [][NextGpio]_vars

\* C27: every call returns the same value in both backends, and a call of
\* gpio_set_direction with a direction other than input and output, or of
\* gpio_write_pin with a level other than LOW and HIGH, returns -1 in both.
C27_BackendsAgree ==
  gpio_call.fn # "none" =>
    /\ gpio_ret = sysfs_gpio(gpio_call.fn, gpio_call.pin, gpio_call.arg)
    /\ gpio_ret = wiringpi_gpio(gpio_call.fn, gpio_call.pin, gpio_call.arg)
    /\ (gpio_call.fn \in {"gpio_set_direction", "gpio_write_pin"}
          /\ gpio_call.arg \notin {0, 1}) => gpio_ret = -1

\* C31: for usec >= 100 the first call of nanosleep made by ltm_sleep(usec)
\* requests usec microseconds: tv_sec * 10^9 + tv_nsec = usec * 1000.
C31_FirstRequestIsUsec ==
  (sleep_usec >= 100 /\ nanosleep_log # << >>) =>
    nanosleep_log[1].arg.sec * 1000000000 + nanosleep_log[1].arg.nsec
      = sleep_usec * 1000

\* C32: no statement of ltm_blast_block / blast_block changes a byte of the
\* buffer it is given (here local_block of the refresh thread) or of the
\* global block: the mask of byte 4 goes to the private copy only.
C32_BlastKeepsBuffer ==
  [][(cpc = "blast" \/ cpc = "blast_bit")
       => (local_block' = local_block /\ block' = block)]_vars

\* A group with the low 6 bits of byte 4 set has been transmitted: the
\* private copy is masked, the buffer still holds the bits.
C32_Witness ==
  /\ cpc = "testcancel"
  /\ Len(wire) = 41
  /\ current_block_counter = 0
  /\ local_block[current_block_counter][4] = \hFF
  /\ tx_block[4] = \hC0
  /\ tx_block[3] = \hFF

\* C33: after parse_command on a line whose first token is neither ALPHA
\* nor NUM the two strings and all 25 bytes of block are as before; after
\* an ALPHA command numeric_string and the numeric-owned bits are as
\* before, after a NUM command alphanum_string and the alphanumeric-owned
\* bits are as before.
C33_CommandTouchesOwnPart ==
  parsed.c.verb # "none" =>
    /\ parsed.c.verb \notin {"ALPHA", "NUM"} =>
         /\ alphanum_string = parsed.a
         /\ numeric_string = parsed.n
         /\ block = parsed.b
    /\ parsed.c.verb = "ALPHA" =>
         /\ numeric_string = parsed.n
         /\ NumericOwned(block) = NumericOwned(parsed.b)
    /\ parsed.c.verb = "NUM" =>
         /\ alphanum_string = parsed.a
         /\ AlphanumOwned(block) = AlphanumOwned(parsed.b)

\* An unknown verb with an argument arrives while both strings are shown.
C33_Witness ==
  /\ parsed.c.verb = "RESET"
  /\ parsed.c.arg = <<49, 50>>
  /\ alphanum_string = <<84, 69, 83, 84, 73, 78, 71>>
  /\ numeric_string = <<55>>
  /\ block = parsed.b
  /\ ~AlphanumClear(block)
  /\ NumericOwned(block) # NumericOwned(InitBlock)

-----------------------------------------------------------------------------
(* The command FIFO of the daemon: poll, read and the NUL stored after the *)
(* bytes read (ltmy2k19jf03.c:857-873 and 565-581).  What parse_command    *)
(* does with the text is DaemonCommand; here only the byte counts matter.  *)

MaxPipe == 20

\* Lengths of the lines a client writes in one write call.
LineLengths == {1, 6, 15, 16}

\* char command_buf[16]
CommandBufSize == 16

\* read(cmd_fd, command_buf, 15)
ReadCount == 15

\* The last client closed its end and the daemon holds no write end of its
\* own (only the later main opens cmd_write_fd).
Hangup == program = "ltmy2kd_v1" /\ writer = "closed"

\* What read(cmd_fd, command_buf, 15) can return on the non-blocking FIFO.
ReadResults ==
  {-1} \cup
    (IF pipe_avail > 0
       THEN {IF pipe_avail < ReadCount THEN pipe_avail ELSE ReadCount}
       ELSE IF Hangup THEN {0} ELSE {})

readUnchanged ==
  <<program, backend, startVars, codecVars, sleepVars, gpioVars, fdVars, shutdown_log,
    handoffVars, bufVars, consVars, cancel_req, wireVars, renderVars, loopVars>>

WriterOpen ==
  /\ read_pc # "none"
  /\ writer # "open"
  /\ writer' = "open"
  /\ UNCHANGED <<read_pc, pipe_avail, poll_retval, bytes_read, cmd_len, stray>>
  /\ UNCHANGED readUnchanged

WriterWrite ==
  /\ writer = "open"
  /\ \E n \in LineLengths :
       /\ pipe_avail + n <= MaxPipe
       /\ pipe_avail' = pipe_avail + n
  /\ UNCHANGED <<read_pc, writer, poll_retval, bytes_read, cmd_len, stray>>
  /\ UNCHANGED readUnchanged

WriterClose ==
  /\ writer = "open"
  /\ writer' = "closed"
  /\ UNCHANGED <<read_pc, pipe_avail, poll_retval, bytes_read, cmd_len, stray>>
  /\ UNCHANGED readUnchanged

\* retval = poll(cmd_poll, 1, current_poll_timeout) and the tests on retval.
PollCommand ==
  /\ read_pc = "poll"
  /\ poll_retval' \in {-1} \cup (IF pipe_avail > 0 \/ Hangup THEN {1} ELSE {0})
  /\ read_pc' = IF poll_retval' < 0 THEN "exit"
                ELSE IF poll_retval' > 0 THEN "read"
                ELSE "poll"
  /\ UNCHANGED <<pipe_avail, writer, bytes_read, cmd_len, stray>>
  /\ UNCHANGED readUnchanged

\* bytes_read = read(cmd_fd, command_buf, 15);
ReadCommand ==
  /\ read_pc = "read"
  /\ bytes_read' \in ReadResults
  /\ pipe_avail' = IF bytes_read' > 0 THEN pipe_avail - bytes_read' ELSE pipe_avail
  /\ read_pc' = "store"
  /\ UNCHANGED <<writer, poll_retval, cmd_len, stray>>
  /\ UNCHANGED readUnchanged

\* command_buf[bytes_read] = '\0';  A store outside the array is undefined:
\* it overwrites a neighbour of command_buf and the program goes on, or it
\* faults.
StoreNul ==
  /\ read_pc = "store"
  /\ IF bytes_read \in 0 .. CommandBufSize - 1
       THEN /\ cmd_len' = bytes_read
            /\ read_pc' = "test"
            /\ UNCHANGED stray
       ELSE /\ stray' = TRUE
            /\ read_pc' \in {"test", "fault"}
            /\ UNCHANGED cmd_len
  /\ UNCHANGED <<pipe_avail, writer, poll_retval, bytes_read>>
  /\ UNCHANGED readUnchanged

\* if (bytes_read > 0) { parse_command(command_buf); } and the next iteration.
TestBytesRead ==
  /\ read_pc = "test"
  /\ read_pc' = IF bytes_read > 0 THEN "parse" ELSE "poll"
  /\ UNCHANGED <<pipe_avail, writer, poll_retval, bytes_read, cmd_len, stray>>
  /\ UNCHANGED readUnchanged

ParseCommand ==
  /\ read_pc = "parse"
  /\ read_pc' = "poll"
  /\ UNCHANGED <<pipe_avail, writer, poll_retval, bytes_read, cmd_len, stray>>
  /\ UNCHANGED readUnchanged

InitRead ==
  /\ program \in DaemonPrograms
  /\ backend \in Backends
  /\ block = InitBlock
  /\ ThreadIdle
  /\ WireIdle
  /\ RenderIdle
  /\ MainIdle
  /\ DaemonIdle
  /\ GhostIdle
  /\ ShutdownIdle
  /\ HandoffIdle
  /\ GpioIdle
  /\ SleepIdle
  /\ StartupIdle
  /\ CodecIdle
  /\ FdIdle
  /\ read_pc = "poll"
  /\ pipe_avail = 0
  /\ writer = "never"
  /\ poll_retval = 0
  /\ bytes_read = 0
  /\ cmd_len = 0
  /\ stray = FALSE

NextRead ==
  \/ WriterOpen
  \/ WriterWrite
  \/ WriterClose
  \/ PollCommand
  \/ ReadCommand
  \/ StoreNul
  \/ TestBytesRead
  \/ ParseCommand

SpecRead == InitRead /\ [][NextRead]_vars

\* C34: in the daemon loop the index at which the terminating NUL is
\* stored into the 16-byte command buffer, command_buf[bytes_read], is
\* within 0..15 for every result of the read that follows a successful
\* poll, a failed read included.
C34_NulIndexInBuffer ==
  read_pc = "store" => bytes_read \in 0 .. CommandBufSize - 1

-----------------------------------------------------------------------------
(* The descriptors of the sysfs backend: gpio_set_direction and            *)
(* gpio_write_pin (sysfs_gpio.c:57-122), statement by statement.           *)

MaxFdCalls == 4

\* The lowest descriptor open() can return: 0, 1 and 2 are the standard streams.
FirstFd == 3

LowestFreeFd ==
  CHOOSE n \in FirstFd .. FirstFd + MaxFdCalls :
    /\ n \notin fd_table
    /\ \A m \in FirstFd .. n - 1 : m \in fd_table

\* The argument tests between open and write.
ValidFdArg ==
  IF fd_fn = "gpio_set_direction"
    THEN fd_arg \in {GPIO_DIR_INPUT, GPIO_DIR_OUTPUT}
    ELSE fd_arg \in {GPIO_PIN_LOW, GPIO_PIN_HIGH}

fdUnchanged ==
  <<program, backend, startVars, codecVars, sleepVars, gpioVars, readVars, shutdown_log,
    handoffVars, bufVars, consVars, cancel_req, wireVars, renderVars, loopVars>>

FdSetDirectionCall ==
  /\ fd_pc = "idle"
  /\ fd_calls < MaxFdCalls
  /\ \E direction \in GpioArgs : fd_arg' = direction
  /\ fd_fn' = "gpio_set_direction"
  /\ fd_calls' = fd_calls + 1
  /\ fd_pc' = "open"
  /\ UNCHANGED <<fd, fd_table, fd_ret>>
  /\ UNCHANGED fdUnchanged

FdWritePinCall ==
  /\ fd_pc = "idle"
  /\ fd_calls < MaxFdCalls
  /\ \E setting \in GpioArgs : fd_arg' = setting
  /\ fd_fn' = "gpio_write_pin"
  /\ fd_calls' = fd_calls + 1
  /\ fd_pc' = "open"
  /\ UNCHANGED <<fd, fd_table, fd_ret>>
  /\ UNCHANGED fdUnchanged

\* fd = open(path, O_WRONLY); if (fd == -1) { ...; return -1; }
FdOpen ==
  /\ fd_pc = "open"
  /\ \/ /\ fd' = -1
        /\ fd_ret' = -1
        /\ fd_pc' = "idle"
        /\ UNCHANGED fd_table
     \/ /\ fd' = LowestFreeFd
        /\ fd_table' = fd_table \cup {LowestFreeFd}
        /\ fd_pc' = "check"
        /\ UNCHANGED fd_ret
  /\ UNCHANGED <<fd_fn, fd_arg, fd_calls>>
  /\ UNCHANGED fdUnchanged

\* if (... == GPIO_DIR_INPUT) ... else if (...) ... else { ...; return -1; }
FdCheckArg ==
  /\ fd_pc = "check"
  /\ IF ValidFdArg
       THEN /\ fd_pc' = "write"
            /\ UNCHANGED fd_ret
       ELSE /\ fd_ret' = -1
            /\ fd_pc' = "idle"
  /\ UNCHANGED <<fd_fn, fd_arg, fd, fd_table, fd_calls>>
  /\ UNCHANGED fdUnchanged

\* if (write(fd, ...) fails) { ...; return -1; }
FdWriteFile ==
  /\ fd_pc = "write"
  /\ \/ /\ fd_pc' = "close"
        /\ UNCHANGED fd_ret
     \/ /\ fd_ret' = -1
        /\ fd_pc' = "idle"
  /\ UNCHANGED <<fd_fn, fd_arg, fd, fd_table, fd_calls>>
  /\ UNCHANGED fdUnchanged

\* close(fd); return 0;
FdClose ==
  /\ fd_pc = "close"
  /\ fd_table' = fd_table \ {fd}
  /\ fd_ret' = 0
  /\ fd_pc' = "idle"
  /\ UNCHANGED <<fd_fn, fd_arg, fd, fd_calls>>
  /\ UNCHANGED fdUnchanged

InitFd ==
  /\ program = "gpio"
  /\ backend = "sysfs"
  /\ block = InitBlock
  /\ ThreadIdle
  /\ WireIdle
  /\ RenderIdle
  /\ MainIdle
  /\ DaemonIdle
  /\ GhostIdle
  /\ ShutdownIdle
  /\ HandoffIdle
  /\ GpioIdle
  /\ IoIdle
  /\ SleepIdle
  /\ StartupIdle
  /\ CodecIdle

NextFd ==
  \/ FdSetDirectionCall
  \/ FdWritePinCall
  \/ FdOpen
  \/ FdCheckArg
  \/ FdWriteFile
  \/ FdClose

SpecFd == InitFd /\ [][NextFd]_vars

\* C35: in the sysfs backend every call of gpio_set_direction and
\* gpio_write_pin that opened a file descriptor has closed it when it
\* returns, on the success path and on every error path (invalid argument,
\* failed write), so failing calls cannot accumulate open descriptors.
C35_DescriptorClosedOnReturn ==
  fd_pc = "idle" => fd_table = {}

====
